---- MODULE Spec2Model ----
(***************************************************************************)
(* A model of the DNS wire codec of hermes (src/dns/protocol.rs): the      *)
(* QueryType and ResultCode enumerations, the header, question, resource   *)
(* record and packet codecs, over the PacketBuffer of dns::buffer.         *)
(*                                                                         *)
(* A String holding a domain name is represented by the sequence of its    *)
(* '.'-separated labels, each label a sequence of byte values; the empty   *)
(* String is the empty sequence of labels.  Integers keep their width:     *)
(* u8 values are taken % 256, u16 values % 65536; the u32 values of the    *)
(* inputs are below 2^31.                                                  *)
(***************************************************************************)
EXTENDS Integers, Sequences, FiniteSets, TLC

VARIABLES pc, packet0, packet, max_size, out, parsed, out2, wire, wfixed,
          qt, num, qt2, num2, hdr, hbytes, hdr2, herr,
          record, rbuf0, rbuf, ret,
          lookup, qname, found,
          question, qstart, qbytes, qclass, qread,
          zones, request, status, saves, served

\* The variables of the packet, header and QueryType codecs.
codecVars == <<packet0, packet, max_size, out, parsed, out2, wire, wfixed,
               qt, num, qt2, num2, hdr, hbytes, hdr2, herr>>

\* The variables of one ResourceRecord::write call.
recordVars == <<record, rbuf0, rbuf, ret>>

\* The variables of the lookups on a packet.
lookupVars == <<lookup, qname, found>>

\* The variables of one DnsQuestion written and read.
questionVars == <<question, qstart, qbytes, qclass, qread>>

\* The variables of the web surface.
webVars == <<zones, request, status, saves, served>>

vars == <<pc, codecVars, recordVars, lookupVars, questionVars, webVars>>

\* ------------------------------------------------------------------ bounds

\* The most records a generated packet holds over its three record sections.
MaxRecords == 2

\* The most questions a generated packet holds.
MaxQuestions == 2

\* ------------------------------------------------- integers of fixed width

U8(n) == n % 256

U16(n) == n % 65536

\* The value of bit k of n.
Bit(n, k) == (n \div (2 ^ k)) % 2

BoolBit(f) == IF f THEN 1 ELSE 0

\* ------------------------------------------------------------ PacketBuffer

\* The size of the fixed "UDP packet" buffer.
FixedSize == 512

\* The cap on pointer jumps while reading one name.
MaxJumps == 5

\* VectorPacketBuffer::new(): an empty growable buffer with no saved labels.
NewVector == [buf |-> <<>>, pos |-> 0, fixed |-> FALSE, labels |-> <<>>, err |-> "ok"]

\* A buffer holding received bytes, cursor at 0: the growable variant ends with
\* its bytes, the fixed variant is zero-filled up to FixedSize.
Received(bytes, fixed) == [buf |-> bytes, pos |-> 0, fixed |-> fixed, labels |-> <<>>, err |-> "ok"]

\* The first offset that cannot be read.
Limit(b) == IF b.fixed THEN FixedSize ELSE Len(b.buf)

ByteAt(b, i) == IF i < Len(b.buf) THEN b.buf[i + 1] ELSE 0

Fail(b, e) == IF b.err = "ok" THEN [b EXCEPT !.err = e] ELSE b

\* seek(p)
Seek(b, p) == IF b.err = "ok" THEN [b EXCEPT !.pos = p] ELSE b

\* step(n): advances the cursor; a later read past the end fails.
Step(b, n) == IF b.err = "ok" THEN [b EXCEPT !.pos = b.pos + n] ELSE b

\* read_u8/u16/u32 as k single-byte reads: the cursor advances over the bytes
\* that could be read and the read fails with "end of buffer" at the first
\* that could not.
ReadN(b, k) ==
    IF b.err # "ok" THEN b
    ELSE IF b.pos + k <= Limit(b) THEN [b EXCEPT !.pos = b.pos + k]
    ELSE [b EXCEPT !.pos = IF b.pos < Limit(b) THEN Limit(b) ELSE b.pos, !.err = "end of buffer"]

\* The big-endian value of the k bytes at offset i.
RECURSIVE ValueAt(_, _, _)
ValueAt(b, i, k) ==
    IF k = 0 THEN 0 ELSE ValueAt(b, i, k - 1) * 256 + ByteAt(b, i + k - 1)

\* get_range(start, len): the bytes, without moving the cursor.
RangeOk(b, start, len) == start + len <= Limit(b)

GetRange(b, start, len) == [i \in 1..len |-> ByteAt(b, start + i - 1)]

\* write of bytes at the cursor, one after the other: bytes already there are
\* overwritten and the growable buffer grows by the rest.
WriteBytes(b, bytes) ==
    IF b.err # "ok" THEN b
    ELSE [b EXCEPT !.buf = SubSeq(b.buf, 1, b.pos) \o bytes
                           \o SubSeq(b.buf, b.pos + Len(bytes) + 1, Len(b.buf)),
                   !.pos = b.pos + Len(bytes)]

WriteU8(b, v) == WriteBytes(b, <<U8(v)>>)

WriteU16(b, v) == WriteBytes(b, <<U16(v) \div 256, U16(v) % 256>>)

WriteU32(b, v) ==
    WriteBytes(b, <<(v \div 16777216) % 256, (v \div 65536) % 256, (v \div 256) % 256, v % 256>>)

\* set_u16(p, v): back-patch two bytes at offset p, cursor unchanged.
SetU16(b, p, v) ==
    IF b.err # "ok" THEN b
    ELSE [b EXCEPT !.buf = [b.buf EXCEPT ![p + 1] = U16(v) \div 256, ![p + 2] = U16(v) % 256]]

\* find_label: the offset at which this name suffix was saved, or -1.
RECURSIVE FindLabel(_, _)
FindLabel(labels, name) ==
    IF labels = <<>> THEN -1
    ELSE IF Head(labels)[1] = name THEN Head(labels)[2]
    ELSE FindLabel(Tail(labels), name)

\* qname_len(name): the length of the name encoded without compression.
RECURSIVE QnameLen(_)
QnameLen(name) ==
    IF name = <<>> THEN 1 ELSE 1 + Len(Head(name)) + QnameLen(Tail(name))

\* write_qname(name): the labels, each behind its length, ended by a zero byte;
\* a suffix already written at an offset <= 0x3FFF is replaced by a pointer to
\* it, which ends the name.
RECURSIVE WriteQname(_, _)
WriteQname(b, name) ==
    IF b.err # "ok" THEN b
    ELSE IF name = <<>> THEN WriteU8(b, 0)
    ELSE LET prev == FindLabel(b.labels, name)
         IN  IF prev >= 0 /\ prev <= 16383
             THEN WriteU16(b, 49152 + prev)
             ELSE LET saved == IF prev < 0
                               THEN [b EXCEPT !.labels = Append(b.labels, <<name, b.pos>>)]
                               ELSE b
                      b1 == WriteBytes(WriteU8(saved, Len(Head(name))), Head(name))
                  IN  IF b1.err # "ok" THEN b1 ELSE WriteQname(b1, Tail(name))

\* read_qname: follows the labels from offset p. Result: [b, name], the name
\* read being appended to acc. On the first pointer the cursor is set behind
\* it; without a pointer it is set behind the closing zero byte. More than
\* MaxJumps jumps fail.
RECURSIVE ReadQnameAt(_, _, _, _)
ReadQnameAt(b, p, jumps, acc) ==
    IF jumps > MaxJumps THEN [b |-> Fail(b, "limit of jumps exceeded"), name |-> acc]
    ELSE IF p >= Limit(b) THEN [b |-> Fail(b, "end of buffer"), name |-> acc]
    ELSE LET len == ByteAt(b, p)
         IN  IF len \div 64 = 3
             THEN LET b1 == IF jumps = 0 THEN Seek(b, p + 2) ELSE b
                  IN  IF p + 1 >= Limit(b)
                      THEN [b |-> Fail(b1, "end of buffer"), name |-> acc]
                      ELSE ReadQnameAt(b1, (len % 64) * 256 + ByteAt(b, p + 1), jumps + 1, acc)
             ELSE IF len = 0
             THEN [b |-> IF jumps = 0 THEN Seek(b, p + 1) ELSE b, name |-> acc]
             ELSE IF ~RangeOk(b, p + 1, len)
             THEN [b |-> Fail(b, "end of buffer"), name |-> acc]
             ELSE ReadQnameAt(b, p + 1 + len, jumps, Append(acc, GetRange(b, p + 1, len)))

ReadQname(b, acc) ==
    IF b.err # "ok" THEN [b |-> b, name |-> acc] ELSE ReadQnameAt(b, b.pos, 0, acc)

\* ---------------------------------------------------------------- QueryType

\* A QueryType value: the variant's name and, for UNKNOWN, the number it carries
\* (0 in the other variants).
QT(tag, x) == [tag |-> tag, x |-> x]

NamedTypes == {"A", "NS", "CNAME", "SOA", "MX", "TXT", "AAAA", "SRV", "OPT"}

\* A mutation of to_num: MX and TXT exchanged.
QueryType_to_num_swapped(q) ==
    CASE q.tag = "UNKNOWN" -> q.x
      [] q.tag = "A" -> 1
      [] q.tag = "NS" -> 2
      [] q.tag = "CNAME" -> 5
      [] q.tag = "SOA" -> 6
      [] q.tag = "MX" -> 16
      [] q.tag = "TXT" -> 15
      [] q.tag = "AAAA" -> 28
      [] q.tag = "SRV" -> 33
      [] q.tag = "OPT" -> 41

QueryType_to_num(q) ==
    CASE q.tag = "UNKNOWN" -> q.x
      [] q.tag = "A" -> 1
      [] q.tag = "NS" -> 2
      [] q.tag = "CNAME" -> 5
      [] q.tag = "SOA" -> 6
      [] q.tag = "MX" -> 15
      [] q.tag = "TXT" -> 16
      [] q.tag = "AAAA" -> 28
      [] q.tag = "SRV" -> 33
      [] q.tag = "OPT" -> 41

\* A mutation of from_num: the arm for 41 (OPT) is missing.
QueryType_from_num_no_opt(n) ==
    CASE n = 1 -> QT("A", 0)
      [] n = 2 -> QT("NS", 0)
      [] n = 5 -> QT("CNAME", 0)
      [] n = 6 -> QT("SOA", 0)
      [] n = 15 -> QT("MX", 0)
      [] n = 16 -> QT("TXT", 0)
      [] n = 28 -> QT("AAAA", 0)
      [] n = 33 -> QT("SRV", 0)
      [] OTHER -> QT("UNKNOWN", n)

QueryType_from_num(n) ==
    CASE n = 1 -> QT("A", 0)
      [] n = 2 -> QT("NS", 0)
      [] n = 5 -> QT("CNAME", 0)
      [] n = 6 -> QT("SOA", 0)
      [] n = 15 -> QT("MX", 0)
      [] n = 16 -> QT("TXT", 0)
      [] n = 28 -> QT("AAAA", 0)
      [] n = 33 -> QT("SRV", 0)
      [] n = 41 -> QT("OPT", 0)
      [] OTHER -> QT("UNKNOWN", n)

\* --------------------------------------------------------------- ResultCode

\* `rescode as u8`: the discriminant of the variant.
ResultCode_as_u8(r) ==
    CASE r = "NOERROR" -> 0
      [] r = "FORMERR" -> 1
      [] r = "SERVFAIL" -> 2
      [] r = "NXDOMAIN" -> 3
      [] r = "NOTIMP" -> 4
      [] r = "REFUSED" -> 5

\* A mutation of from_num: the arms for 4 and 5 are missing.
ResultCode_from_num_short(n) ==
    CASE n = 0 -> "NOERROR"
      [] n = 1 -> "FORMERR"
      [] n = 2 -> "SERVFAIL"
      [] n = 3 -> "NXDOMAIN"
      [] OTHER -> "NOERROR"

ResultCode_from_num(n) ==
    CASE n = 0 -> "NOERROR"
      [] n = 1 -> "FORMERR"
      [] n = 2 -> "SERVFAIL"
      [] n = 3 -> "NXDOMAIN"
      [] n = 4 -> "NOTIMP"
      [] n = 5 -> "REFUSED"
      [] OTHER -> "NOERROR"

\* ---------------------------------------------------------------- DnsHeader

\* The bitwise or of two bytes.
Or8(a, c) ==
    LET or[k \in 0..8] ==
            IF k = 8 THEN 0
            ELSE (IF Bit(a, k) = 1 \/ Bit(c, k) = 1 THEN 2 ^ k ELSE 0) + or[k + 1]
    IN  or[0]

\* DnsHeader::new()
NewHeader ==
    [id |-> 0,
     recursion_desired |-> FALSE, truncated_message |-> FALSE,
     authoritative_answer |-> FALSE, opcode |-> 0, response |-> FALSE,
     rescode |-> "NOERROR", checking_disabled |-> FALSE, authed_data |-> FALSE,
     z |-> FALSE, recursion_available |-> FALSE,
     questions |-> 0, answers |-> 0, authoritative_entries |-> 0, resource_entries |-> 0]

\* The first flag byte DnsHeader::write emits; `opcode << 3` is taken in u8.
FlagByteA(h) ==
    Or8(Or8(Or8(Or8(BoolBit(h.recursion_desired),
                    BoolBit(h.truncated_message) * 2),
                BoolBit(h.authoritative_answer) * 4),
            U8(h.opcode * 8)),
        BoolBit(h.response) * 128)

\* A mutation of the second flag byte: CD and AD exchange their bits.
FlagByteB_swapped(h) ==
    Or8(Or8(Or8(Or8(ResultCode_as_u8(h.rescode),
                    BoolBit(h.checking_disabled) * 32),
                BoolBit(h.authed_data) * 16),
            BoolBit(h.z) * 64),
        BoolBit(h.recursion_available) * 128)

\* The second flag byte DnsHeader::write emits.
FlagByteB(h) ==
    Or8(Or8(Or8(Or8(ResultCode_as_u8(h.rescode),
                    BoolBit(h.checking_disabled) * 16),
                BoolBit(h.authed_data) * 32),
            BoolBit(h.z) * 64),
        BoolBit(h.recursion_available) * 128)

\* DnsHeader::binary_len
Header_binary_len == 12

\* DnsHeader::write
DnsHeader_write(h, b) ==
    LET b1 == WriteU16(b, h.id)
        b2 == WriteU8(b1, FlagByteA(h))
        b3 == WriteU8(b2, FlagByteB(h))
        b4 == WriteU16(b3, h.questions)
        b5 == WriteU16(b4, h.answers)
        b6 == WriteU16(b5, h.authoritative_entries)
    IN  WriteU16(b6, h.resource_entries)

\* DnsHeader::read: [b, h]. The fields read before a failing read are assigned,
\* the others are left as they were.
DnsHeader_read(h, b) ==
    LET b1 == ReadN(b, 2)
        h1 == IF b1.err = "ok" THEN [h EXCEPT !.id = ValueAt(b, b.pos, 2)] ELSE h
        b2 == ReadN(b1, 2)
        flags == ValueAt(b1, b1.pos, 2)
        a == U8(flags \div 256)
        f == U8(flags % 256)
        h2 == IF b2.err = "ok"
              THEN [h1 EXCEPT !.recursion_desired = Bit(a, 0) = 1,
                              !.truncated_message = Bit(a, 1) = 1,
                              !.authoritative_answer = Bit(a, 2) = 1,
                              !.opcode = (a \div 8) % 16,
                              !.response = Bit(a, 7) = 1,
                              !.rescode = ResultCode_from_num(f % 16),
                              !.checking_disabled = Bit(f, 4) = 1,
                              !.authed_data = Bit(f, 5) = 1,
                              !.z = Bit(f, 6) = 1,
                              !.recursion_available = Bit(f, 7) = 1]
              ELSE h1
        b3 == ReadN(b2, 2)
        h3 == IF b3.err = "ok" THEN [h2 EXCEPT !.questions = ValueAt(b2, b2.pos, 2)] ELSE h2
        b4 == ReadN(b3, 2)
        h4 == IF b4.err = "ok" THEN [h3 EXCEPT !.answers = ValueAt(b3, b3.pos, 2)] ELSE h3
        b5 == ReadN(b4, 2)
        h5 == IF b5.err = "ok"
              THEN [h4 EXCEPT !.authoritative_entries = ValueAt(b4, b4.pos, 2)] ELSE h4
        b6 == ReadN(b5, 2)
        h6 == IF b6.err = "ok"
              THEN [h5 EXCEPT !.resource_entries = ValueAt(b5, b5.pos, 2)] ELSE h5
    IN  [b |-> b6, h |-> h6]

\* -------------------------------------------------------------- DnsQuestion

\* DnsQuestion::new
NewQuestion(name, qtype) == [name |-> name, qtype |-> qtype]

\* DnsQuestion::binary_len
Question_binary_len(q) == QnameLen(q.name) + 4

\* A mutation of write: the class written is the number of the type.
DnsQuestion_write_type_as_class(q, b) ==
    WriteU16(WriteU16(WriteQname(b, q.name), QueryType_to_num(q.qtype)), QueryType_to_num(q.qtype))

\* DnsQuestion::write
DnsQuestion_write(q, b) ==
    WriteU16(WriteU16(WriteQname(b, q.name), QueryType_to_num(q.qtype)), 1)

\* What DnsQuestion::read does once read_qname has returned r1 = [b, name]: the
\* Result of the name read is dropped, the type is read with `try!`, the Result
\* of the class read is dropped.
QuestionAfterName(q, r1) ==
    LET b1 == [r1.b EXCEPT !.err = "ok"]
        d1 == IF r1.b.err # "ok" THEN <<r1.b.err>> ELSE <<>>
        b2 == ReadN(b1, 2)
        b3 == ReadN(b2, 2)
        d3 == IF b3.err # "ok" THEN <<b3.err>> ELSE <<>>
    IN  IF b2.err # "ok"
        THEN [b |-> b2, q |-> [q EXCEPT !.name = r1.name], dropped |-> d1]
        ELSE [b |-> [b3 EXCEPT !.err = "ok"],
              q |-> [name |-> r1.name, qtype |-> QueryType_from_num(ValueAt(b1, b1.pos, 2))],
              dropped |-> d1 \o d3]

\* DnsQuestion::read: [b, q, dropped]. The results of reading the name and the
\* class are dropped (`let _ =`): only a failing read of the type is returned.
\* dropped lists the errors of the reads whose result was dropped.
DnsQuestion_read(q, b) == QuestionAfterName(q, ReadQname(b, q.name))

\* ----------------------------------------------------------- ResourceRecord

\* The variants of ResourceRecord. A String of text (TXT, OPT) is a sequence of
\* character codes.
RR_UNKNOWN(domain, qtype, data_len, ttl) ==
    [tag |-> "UNKNOWN", domain |-> domain, qtype |-> qtype, data_len |-> data_len, ttl |-> ttl]

RR_A(domain, addr, ttl) == [tag |-> "A", domain |-> domain, addr |-> addr, ttl |-> ttl]

RR_NS(domain, host, ttl) == [tag |-> "NS", domain |-> domain, host |-> host, ttl |-> ttl]

RR_CNAME(domain, host, ttl) == [tag |-> "CNAME", domain |-> domain, host |-> host, ttl |-> ttl]

RR_SOA(domain, mname, rname, serial, refresh, retry, expire, minimum, ttl) ==
    [tag |-> "SOA", domain |-> domain, mname |-> mname, rname |-> rname, serial |-> serial,
     refresh |-> refresh, retry |-> retry, expire |-> expire, minimum |-> minimum, ttl |-> ttl]

RR_MX(domain, priority, host, ttl) ==
    [tag |-> "MX", domain |-> domain, priority |-> priority, host |-> host, ttl |-> ttl]

RR_TXT(domain, data, ttl) == [tag |-> "TXT", domain |-> domain, data |-> data, ttl |-> ttl]

RR_AAAA(domain, addr, ttl) == [tag |-> "AAAA", domain |-> domain, addr |-> addr, ttl |-> ttl]

RR_SRV(domain, priority, weight, port, host, ttl) ==
    [tag |-> "SRV", domain |-> domain, priority |-> priority, weight |-> weight,
     port |-> port, host |-> host, ttl |-> ttl]

RR_OPT(class, ttl, data) == [tag |-> "OPT", class |-> class, ttl |-> ttl, data |-> data]

\* String::from_utf8_lossy on bytes: an ASCII byte is its character, any other
\* byte is taken as an invalid sequence and becomes U+FFFD.
FromUtf8Lossy(bytes) == [i \in 1..Len(bytes) |-> IF bytes[i] < 128 THEN bytes[i] ELSE 65533]

\* str::as_bytes: an ASCII character is one byte, U+FFFD is EF BF BD.
RECURSIVE AsBytes(_)
AsBytes(str) ==
    IF str = <<>> THEN <<>>
    ELSE (IF Head(str) < 128 THEN <<Head(str)>> ELSE <<239, 191, 189>>) \o AsBytes(Tail(str))

\* What every arm of ResourceRecord::write begins with: the owner name, the
\* type, class 1 and the ttl.
WriteRecordHead(b, domain, typenum, ttl) ==
    WriteU32(WriteU16(WriteU16(WriteQname(b, domain), typenum), 1), ttl)

\* A mutation of the back-patch: the length counts the slot itself.
PatchLength_with_slot(b, pos) == SetU16(b, pos, b.pos - pos)

\* The back-patch closing the variable-length arms: the RDLENGTH slot at pos
\* gets the number of bytes written behind it.
PatchLength(b, pos) == SetU16(b, pos, b.pos - (pos + 2))

\* The A arm of ResourceRecord::write.
WriteA(rec, b) ==
    LET b1 == WriteU16(WriteRecordHead(b, rec.domain, QueryType_to_num(QT("A", 0)), rec.ttl), 4)
    IN  WriteU8(WriteU8(WriteU8(WriteU8(b1, rec.addr[1]), rec.addr[2]), rec.addr[3]), rec.addr[4])

RECURSIVE WriteSegments(_, _)
WriteSegments(b, segs) ==
    IF segs = <<>> \/ b.err # "ok" THEN b
    ELSE WriteSegments(WriteU16(b, Head(segs)), Tail(segs))

\* ResourceRecord::write: the buffer after the call; the value returned is the
\* distance the cursor moved.
ResourceRecord_write(rec, b) ==
    CASE rec.tag = "A" -> WriteA(rec, b)
      [] rec.tag = "AAAA" ->
           WriteSegments(
               WriteU16(WriteRecordHead(b, rec.domain, QueryType_to_num(QT("AAAA", 0)), rec.ttl), 16),
               rec.addr)
      [] rec.tag = "NS" ->
           LET b1 == WriteRecordHead(b, rec.domain, QueryType_to_num(QT("NS", 0)), rec.ttl)
           IN  PatchLength(WriteQname(WriteU16(b1, 0), rec.host), b1.pos)
      [] rec.tag = "CNAME" ->
           LET b1 == WriteRecordHead(b, rec.domain, QueryType_to_num(QT("CNAME", 0)), rec.ttl)
           IN  PatchLength(WriteQname(WriteU16(b1, 0), rec.host), b1.pos)
      [] rec.tag = "SRV" ->
           LET b1 == WriteRecordHead(b, rec.domain, QueryType_to_num(QT("SRV", 0)), rec.ttl)
               b2 == WriteU16(WriteU16(WriteU16(WriteU16(b1, 0), rec.priority), rec.weight), rec.port)
           IN  PatchLength(WriteQname(b2, rec.host), b1.pos)
      [] rec.tag = "MX" ->
           LET b1 == WriteRecordHead(b, rec.domain, QueryType_to_num(QT("MX", 0)), rec.ttl)
           IN  PatchLength(WriteQname(WriteU16(WriteU16(b1, 0), rec.priority), rec.host), b1.pos)
      [] rec.tag = "SOA" ->
           LET b1 == WriteRecordHead(b, rec.domain, QueryType_to_num(QT("SOA", 0)), rec.ttl)
               b2 == WriteQname(WriteQname(WriteU16(b1, 0), rec.mname), rec.rname)
               b3 == WriteU32(WriteU32(WriteU32(b2, rec.serial), rec.refresh), rec.retry)
           IN  PatchLength(WriteU32(WriteU32(b3, rec.expire), rec.minimum), b1.pos)
      [] rec.tag = "TXT" ->
           LET b1 == WriteRecordHead(b, rec.domain, QueryType_to_num(QT("TXT", 0)), rec.ttl)
               bytes == AsBytes(rec.data)
           IN  WriteBytes(WriteU16(b1, Len(bytes)), bytes)
      [] rec.tag = "OPT" -> b
      [] rec.tag = "UNKNOWN" -> b

\* The value ResourceRecord::write returns: the distance the cursor moved.
ResourceRecord_write_ret(rec, b) == ResourceRecord_write(rec, b).pos - b.pos

\* The `match qtype` of ResourceRecord::read, with the buffer b4 as the reads of
\* the name, type, class, ttl and data length left it: [b, rec].
ReadRData(domain, qtype_num, qtype, class, ttl, data_len, b4) ==
    IF b4.err # "ok" THEN [b |-> b4, rec |-> RR_UNKNOWN(<<>>, 0, 0, 0)]
    ELSE CASE qtype.tag = "A" ->
                [b |-> ReadN(b4, 4),
                 rec |-> RR_A(domain, [i \in 1..4 |-> ByteAt(b4, b4.pos + i - 1)], ttl)]
           [] qtype.tag = "AAAA" ->
                [b |-> ReadN(ReadN(ReadN(ReadN(b4, 4), 4), 4), 4),
                 rec |-> RR_AAAA(domain, [i \in 1..8 |-> ValueAt(b4, b4.pos + 2 * (i - 1), 2)], ttl)]
           [] qtype.tag = "NS" ->
                LET r == ReadQname(b4, <<>>)
                IN  [b |-> r.b, rec |-> RR_NS(domain, r.name, ttl)]
           [] qtype.tag = "CNAME" ->
                LET r == ReadQname(b4, <<>>)
                IN  [b |-> r.b, rec |-> RR_CNAME(domain, r.name, ttl)]
           [] qtype.tag = "SRV" ->
                LET r == ReadQname(ReadN(ReadN(ReadN(b4, 2), 2), 2), <<>>)
                IN  [b |-> r.b,
                     rec |-> RR_SRV(domain, ValueAt(b4, b4.pos, 2), ValueAt(b4, b4.pos + 2, 2),
                                    ValueAt(b4, b4.pos + 4, 2), r.name, ttl)]
           [] qtype.tag = "MX" ->
                LET r == ReadQname(ReadN(b4, 2), <<>>)
                IN  [b |-> r.b, rec |-> RR_MX(domain, ValueAt(b4, b4.pos, 2), r.name, ttl)]
           [] qtype.tag = "SOA" ->
                LET m == ReadQname(b4, <<>>)
                    r == ReadQname(m.b, <<>>)
                IN  [b |-> ReadN(ReadN(ReadN(ReadN(ReadN(r.b, 4), 4), 4), 4), 4),
                     rec |-> RR_SOA(domain, m.name, r.name, ValueAt(r.b, r.b.pos, 4),
                                    ValueAt(r.b, r.b.pos + 4, 4), ValueAt(r.b, r.b.pos + 8, 4),
                                    ValueAt(r.b, r.b.pos + 12, 4), ValueAt(r.b, r.b.pos + 16, 4),
                                    ttl)]
           [] qtype.tag = "TXT" ->
                IF ~RangeOk(b4, b4.pos, data_len)
                THEN [b |-> Fail(b4, "end of buffer"), rec |-> RR_UNKNOWN(<<>>, 0, 0, 0)]
                ELSE [b |-> Step(b4, data_len),
                      rec |-> RR_TXT(domain, FromUtf8Lossy(GetRange(b4, b4.pos, data_len)), ttl)]
           [] qtype.tag = "OPT" ->
                IF ~RangeOk(b4, b4.pos, data_len)
                THEN [b |-> Fail(b4, "end of buffer"), rec |-> RR_UNKNOWN(<<>>, 0, 0, 0)]
                ELSE [b |-> Step(b4, data_len),
                      rec |-> RR_OPT(class, ttl, FromUtf8Lossy(GetRange(b4, b4.pos, data_len)))]
           [] qtype.tag = "UNKNOWN" ->
                [b |-> Step(b4, data_len), rec |-> RR_UNKNOWN(domain, qtype_num, data_len, ttl)]

\* What ResourceRecord::read does once read_qname has returned r0 = [b, name]:
\* the type, the class, the ttl and the data length are read, 2, 2, 4 and 2
\* bytes from where the name ended, then the data.
RecordAfterName(r0) ==
    ReadRData(r0.name,
              ValueAt(r0.b, r0.b.pos, 2), QueryType_from_num(ValueAt(r0.b, r0.b.pos, 2)),
              ValueAt(r0.b, r0.b.pos + 2, 2),
              ValueAt(r0.b, r0.b.pos + 4, 4), ValueAt(r0.b, r0.b.pos + 8, 2),
              ReadN(ReadN(ReadN(ReadN(r0.b, 2), 2), 4), 2))

\* ResourceRecord::read: [b, rec]; rec means nothing when b.err is not "ok".
ResourceRecord_read(b) == RecordAfterName(ReadQname(b, <<>>))

\* ---------------------------------------------------------------- DnsPacket

\* DnsPacket::new()
NewPacket ==
    [header |-> NewHeader, questions |-> <<>>, answers |-> <<>>,
     authorities |-> <<>>, resources |-> <<>>]

\* answers.iter().chain(authorities.iter()).chain(resources.iter())
Chain(p) == p.answers \o p.authorities \o p.resources

\* The state of DnsPacket::from_buffer: the buffer, the packet read so far, the
\* <<start, end>> offsets of the questions and records in the order they were
\* read, and the errors of the reads whose result was dropped.
ParseState(b, p, at, dropped) == [b |-> b, packet |-> p, at |-> at, dropped |-> dropped]

RECURSIVE ReadQuestions(_, _)
RECURSIVE PushQuestion(_, _, _)

\* question.read(buffer) has returned r = [b, q, dropped]: `try!`, then push.
PushQuestion(s, n, r) ==
    IF r.b.err # "ok"
    THEN [s EXCEPT !.b = r.b, !.dropped = @ \o r.dropped]
    ELSE ReadQuestions([s EXCEPT !.b = r.b,
                                 !.packet.questions = Append(@, r.q),
                                 !.at = Append(@, <<s.b.pos, r.b.pos>>),
                                 !.dropped = @ \o r.dropped],
                       n - 1)

\* The loop over 0..header.questions of from_buffer, n questions to go.
ReadQuestions(s, n) ==
    IF n = 0 \/ s.b.err # "ok" THEN s
    ELSE PushQuestion(s, n, DnsQuestion_read(NewQuestion(<<>>, QT("UNKNOWN", 0)), s.b))

RECURSIVE ReadRecords(_, _, _)
RECURSIVE PushRecord(_, _, _, _)

\* ResourceRecord::read(buffer) has returned r = [b, rec]: `try!`, then push to
\* the section.
PushRecord(s, section, n, r) ==
    IF r.b.err # "ok"
    THEN [s EXCEPT !.b = r.b]
    ELSE ReadRecords([s EXCEPT !.b = r.b,
                               !.packet[section] = Append(@, r.rec),
                               !.at = Append(@, <<s.b.pos, r.b.pos>>)],
                     section, n - 1)

\* A loop of from_buffer over the records of one section, n records to go.
ReadRecords(s, section, n) ==
    IF n = 0 \/ s.b.err # "ok" THEN s
    ELSE PushRecord(s, section, n, ResourceRecord_read(s.b))

\* result.header.read(buffer) has returned r = [b, h].
HeaderParsed(r) == ParseState(r.b, [NewPacket EXCEPT !.header = r.h], <<>>, <<>>)

\* Each loop of from_buffer runs as often as the header read so far says.
QuestionsOf(s) == ReadQuestions(s, s.packet.header.questions)

AnswersOf(s) == ReadRecords(s, "answers", s.packet.header.answers)

AuthoritiesOf(s) == ReadRecords(s, "authorities", s.packet.header.authoritative_entries)

ResourcesOf(s) == ReadRecords(s, "resources", s.packet.header.resource_entries)

\* The Result of from_buffer: [err, packet, pos, at, dropped]: "ok" or the
\* error, the packet (meaningful when err is "ok"), the cursor afterwards, the
\* offsets and the dropped errors of the ParseState.
FromBufferResult(s) ==
    [err |-> s.b.err, packet |-> s.packet, pos |-> s.b.pos, at |-> s.at, dropped |-> s.dropped]

\* A mutation of the loops of from_buffer: the authorities are read as many as
\* arcount says and the additionals as many as nscount says.
AuthoritiesOf_swapped(s) == ReadRecords(s, "authorities", s.packet.header.resource_entries)

ResourcesOf_swapped(s) == ReadRecords(s, "resources", s.packet.header.authoritative_entries)

DnsPacket_from_buffer_swapped(b) ==
    FromBufferResult(
        ResourcesOf_swapped(AuthoritiesOf_swapped(AnswersOf(QuestionsOf(
            HeaderParsed(DnsHeader_read(NewHeader, b)))))))

\* DnsPacket::from_buffer
DnsPacket_from_buffer(b) ==
    FromBufferResult(
        ResourcesOf(AuthoritiesOf(AnswersOf(QuestionsOf(
            HeaderParsed(DnsHeader_read(NewHeader, b)))))))

RECURSIVE WriteQuestions(_, _)
WriteQuestions(b, qs) ==
    IF qs = <<>> \/ b.err # "ok" THEN b
    ELSE WriteQuestions(DnsQuestion_write(Head(qs), b), Tail(qs))

RECURSIVE WriteRecords(_, _)
WriteRecords(b, recs) ==
    IF recs = <<>> \/ b.err # "ok" THEN b
    ELSE WriteRecords(ResourceRecord_write(Head(recs), b), Tail(recs))

RECURSIVE SumBinaryLen(_)
SumBinaryLen(qs) ==
    IF qs = <<>> THEN 0 ELSE Question_binary_len(Head(qs)) + SumBinaryLen(Tail(qs))

RECURSIVE SizingLoop(_, _, _, _, _, _)
RECURSIVE CountRecord(_, _, _, _, _, _, _)

\* The body of the sizing loop once rec.write(&mut test_buffer) has returned:
\* tb1 is the scratch buffer after it, tb the one before it.
CountRecord(p, i, tb, tb1, size, h, max) ==
    IF size + (tb1.pos - tb.pos) > max
    THEN [record_count |-> i, header |-> [h EXCEPT !.truncated_message = TRUE]]
    ELSE SizingLoop(p, i + 1, tb1, size + (tb1.pos - tb.pos),
                    IF i < Len(p.answers)
                    THEN [h EXCEPT !.answers = @ + 1]
                    ELSE IF i < Len(p.answers) + Len(p.authorities)
                    THEN [h EXCEPT !.authoritative_entries = @ + 1]
                    ELSE [h EXCEPT !.resource_entries = @ + 1],
                    max)

\* The loop of DnsPacket::write over the chained records, from index i, with
\* the scratch buffer tb, the size so far and the header h:
\* [record_count, header].
SizingLoop(p, i, tb, size, h, max) ==
    IF i >= Len(Chain(p)) THEN [record_count |-> Len(Chain(p)), header |-> h]
    ELSE CountRecord(p, i, tb, ResourceRecord_write(Chain(p)[i + 1], tb), size, h, max)

\* The end of DnsPacket::write, once the sizing loop has returned loop =
\* [record_count, header]: the question count is set, the header, the questions
\* and the first record_count records are written.
EmitPacket(p, b, h, record_count) ==
    [b |-> WriteRecords(WriteQuestions(DnsHeader_write(h, b), p.questions),
                        SubSeq(Chain(p), 1, record_count)),
     packet |-> [p EXCEPT !.header = h]]

EmitCounted(p, b, loop) ==
    EmitPacket(p, b, [loop.header EXCEPT !.questions = U16(Len(p.questions))], loop.record_count)

\* DnsPacket::write(buffer, max_size): [b, packet], the buffer and the packet
\* (its header is updated in place) after the call.
DnsPacket_write(p, b, max) ==
    EmitCounted(p, b,
                SizingLoop(p, 0, WriteQuestions(NewVector, p.questions),
                           Header_binary_len + SumBinaryLen(p.questions), p.header, max))

\* ------------------------------------------------------------ the inputs

\* The names "a.b" and "c.a.b".
Name_ab == <<<<97>>, <<98>>>>

Name_cab == <<<<99>>, <<97>>, <<98>>>>

\* The records a generated packet draws its answers, authorities and
\* additionals from.
AnswerPool ==
    {RR_A(Name_ab, <<93, 184, 216, 34>>, 60),
     RR_NS(Name_ab, Name_cab, 3600),
     RR_CNAME(Name_cab, Name_ab, 100000),
     RR_MX(Name_ab, 10, Name_cab, 3600),
     RR_TXT(Name_ab, <<104, 105>>, 5),
     RR_UNKNOWN(Name_ab, 99, 0, 7)}

AuthorityPool ==
    {RR_NS(Name_ab, Name_cab, 3600),
     RR_SOA(Name_ab, Name_cab, Name_ab, 2016, 3600, 600, 86400, 2147483647, 3600)}

ResourcePool ==
    {RR_A(Name_cab, <<10, 0, 0, 1>>, 60),
     RR_AAAA(Name_cab, <<8193, 3512, 0, 0, 0, 0, 0, 1>>, 60),
     RR_SRV(Name_ab, 1, 2, 53, Name_cab, 60),
     RR_OPT(4096, 0, <<>>)}

QuestionPool == {NewQuestion(Name_ab, QT("NS", 0)), NewQuestion(Name_cab, QT("A", 0))}

\* The values of max_size tried: below a header with one question, around the
\* generated packets' sizes, and the UDP limit.
MaxSizes == {20, 30, 45, 60, 512}

SeqsUpTo(S, n) == UNION {[1..k -> S] : k \in 0..n}

\* The header of the packet of tests::test_packet: fresh, then id and response
\* set.
TestHeader == [NewHeader EXCEPT !.id = 1337, !.response = TRUE]

\* A packet with the header of the test.
TestPacket(qs, an, ns, ar) ==
    [header |-> TestHeader, questions |-> qs, answers |-> an,
     authorities |-> ns, resources |-> ar]

NoResult == [err |-> "none", packet |-> NewPacket, pos |-> 0, at |-> <<>>, dropped |-> <<>>]

IdlePacket ==
    /\ packet0 = NewPacket /\ packet = NewPacket /\ max_size = 0
    /\ out = <<>> /\ out2 = <<>>

IdleParse == wire = <<>> /\ wfixed = FALSE

IdleQType ==
    /\ qt = QT("UNKNOWN", 0) /\ qt2 = QT("UNKNOWN", 0) /\ num = 0 /\ num2 = 0

IdleHeader == hdr = NewHeader /\ hdr2 = NewHeader /\ hbytes = <<>> /\ herr = "none"

IdleRecord == record = RR_OPT(0, 0, <<>>) /\ rbuf0 = NewVector /\ rbuf = NewVector /\ ret = 0

IdleLookup == lookup = NewPacket /\ qname = <<>> /\ found = <<>>

IdleQuestion ==
    /\ question = NewQuestion(<<>>, QT("UNKNOWN", 0))
    /\ qstart = NewVector /\ qbytes = NewVector
    /\ qclass = <<1, 1>> /\ qread = <<>>

\* No request: the value of request before the first one is served.
NoRequest ==
    [method |-> "NONE", url |-> "other", zone |-> <<>>, json_input |-> FALSE,
     form |-> <<>>, json |-> [valid |-> FALSE, fields |-> <<>>]]

IdleWeb ==
    /\ zones = {} /\ request = NoRequest /\ status = 0 /\ saves = <<>> /\ served = 0

\* ------------------------------------------- the packet codec, write first

\* A packet of at most MaxQuestions questions and at most MaxRecords records
\* over the three sections is built, written under one of the sizes, read back
\* and written again.
InitPacket ==
    /\ pc = "new"
    /\ \E qs \in SeqsUpTo(QuestionPool, MaxQuestions), an \in SeqsUpTo(AnswerPool, MaxRecords) :
         \E ns \in SeqsUpTo(AuthorityPool, MaxRecords - Len(an)) :
           \E ar \in SeqsUpTo(ResourcePool, MaxRecords - Len(an) - Len(ns)) :
             packet0 = TestPacket(qs, an, ns, ar)
    /\ packet = packet0
    /\ max_size \in MaxSizes
    /\ out = <<>> /\ out2 = <<>>
    /\ parsed = NoResult
    /\ IdleParse /\ IdleQType /\ IdleHeader
    /\ IdleRecord /\ IdleLookup /\ IdleQuestion /\ IdleWeb

\* packet.write(&mut buffer, max_size) on a new VectorPacketBuffer.
Write ==
    /\ pc = "new"
    /\ LET w == DnsPacket_write(packet, NewVector, max_size)
       IN  /\ out' = w.b.buf
           /\ packet' = w.packet
    /\ pc' = "written"
    /\ UNCHANGED <<packet0, max_size, parsed, out2, wire, wfixed, qt, num, qt2, num2,
                   hdr, hbytes, hdr2, herr>>
    /\ UNCHANGED <<recordVars, lookupVars, questionVars, webVars>>

\* buffer.seek(0), then DnsPacket::from_buffer(&mut buffer).
Parse ==
    /\ pc = "written"
    /\ parsed' = DnsPacket_from_buffer(Received(out, FALSE))
    /\ pc' = "parsed"
    /\ UNCHANGED <<packet0, packet, max_size, out, out2, wire, wfixed, qt, num, qt2, num2,
                   hdr, hbytes, hdr2, herr>>
    /\ UNCHANGED <<recordVars, lookupVars, questionVars, webVars>>

\* The same packet written a second time, with the same max_size, to another
\* new VectorPacketBuffer.
WriteAgain ==
    /\ pc = "written"
    /\ LET w == DnsPacket_write(packet, NewVector, max_size)
       IN  /\ out2' = w.b.buf
           /\ packet' = w.packet
    /\ pc' = "rewritten"
    /\ UNCHANGED <<packet0, max_size, out, parsed, wire, wfixed, qt, num, qt2, num2,
                   hdr, hbytes, hdr2, herr>>
    /\ UNCHANGED <<recordVars, lookupVars, questionVars, webVars>>

NextPacket == Write \/ Parse \/ WriteAgain

SpecPacket == InitPacket /\ [][NextPacket]_vars

\* ------------------------------------------------ claims on DnsPacket::write

\* The bytes of a header, questions and records written one after the other to
\* a new growable buffer.
EncodeAll(h, qs, recs) ==
    WriteRecords(WriteQuestions(DnsHeader_write(h, NewVector), qs), recs).buf

\* The full encoded size of a packet: header, all questions, all records.
FullSize(p) == Len(EncodeAll(p.header, p.questions, Chain(p)))

\* The size write has counted once the first k records are in the scratch
\* buffer: the header, the questions by their binary_len, the records by the
\* bytes they took behind the questions.
CumulativeSize(p, k) ==
    Header_binary_len + SumBinaryLen(p.questions)
    + (WriteRecords(WriteQuestions(NewVector, p.questions), SubSeq(Chain(p), 1, k)).pos
       - WriteQuestions(NewVector, p.questions).pos)

\* The place (from 1) of the first record whose cumulative size exceeds max, 0
\* when there is none.
FirstOverflow(p, max) ==
    LET over == {k \in 1..Len(Chain(p)) : CumulativeSize(p, k) > max}
    IN  IF over = {} THEN 0 ELSE CHOOSE k \in over : \A j \in over : k <= j

Min(a, c) == IF a <= c THEN a ELSE c

\* How many of the first k chained records come from each section.
FromAnswers(p, k) == Min(k, Len(p.answers))

FromAuthorities(p, k) == Min(k - FromAnswers(p, k), Len(p.authorities))

FromResources(p, k) == k - FromAnswers(p, k) - FromAuthorities(p, k)

ZeroCounts(h) == h.answers = 0 /\ h.authoritative_entries = 0 /\ h.resource_entries = 0

Supported(rec) == rec.tag \notin {"OPT", "UNKNOWN"}

\* The TC bit and the section counts of an emitted header.
WireTC(bytes) == Bit(bytes[3], 1) = 1

WireCount(bytes, i) == bytes[5 + 2 * i] * 256 + bytes[6 + 2 * i]

\* C1: a packet of supported record variants with a fresh header, written to a
\* growable buffer with a max_size larger than the packet and read back from
\* offset 0, comes back with equal questions, answers, authorities and
\* additionals, in the same order.
C1_RoundTrip ==
    (/\ pc = "parsed"
     /\ ZeroCounts(packet0.header)
     /\ \A i \in 1..Len(Chain(packet0)) : Supported(Chain(packet0)[i])
     /\ max_size > FullSize(packet0))
    => /\ parsed.err = "ok"
       /\ parsed.packet.questions = packet0.questions
       /\ parsed.packet.answers = packet0.answers
       /\ parsed.packet.authorities = packet0.authorities
       /\ parsed.packet.resources = packet0.resources

\* C2: for a packet whose full encoded size exceeds max_size, write emits at
\* most max_size bytes and the emitted header has the TC bit set.
C2_TruncatedFits ==
    (pc = "written" /\ FullSize(packet0) > max_size)
    => Len(out) <= max_size /\ WireTC(out)

\* How many of the first n records of a section write emits bytes for.
EmittedOf(recs, n) == Cardinality({i \in 1..n : Supported(recs[i])})

\* C3: when write truncates a packet whose section counts were zero, the
\* records emitted behind the header and the questions are exactly the records
\* of answers, authorities, additionals before the first one whose cumulative
\* size exceeds max_size, none behind it; and the emitted ancount, nscount and
\* arcount are the numbers of emitted records taken from each section.
C3_TruncatedPrefix ==
    LET k == FirstOverflow(packet0, max_size)
        kept == EncodeAll(packet0.header, packet0.questions, SubSeq(Chain(packet0), 1, k - 1))
    IN  (pc = "written" /\ ZeroCounts(packet0.header) /\ k # 0)
        => /\ WireTC(out)
           /\ SubSeq(out, Header_binary_len + 1, Len(out))
              = SubSeq(kept, Header_binary_len + 1, Len(kept))
           /\ WireCount(out, 1) = EmittedOf(packet0.answers, FromAnswers(packet0, k - 1))
           /\ WireCount(out, 2) = EmittedOf(packet0.authorities, FromAuthorities(packet0, k - 1))
           /\ WireCount(out, 3) = EmittedOf(packet0.resources, FromResources(packet0, k - 1))

\* C4: the same packet written twice with the same max_size, each time to a
\* buffer at the same start offset, gives the same bytes, header included.
C4_Idempotent == pc = "rewritten" => out2 = out

\* A packet without its OPT and UNKNOWN records.
WithoutSkipped(p) ==
    [p EXCEPT !.answers = SelectSeq(p.answers, Supported),
              !.authorities = SelectSeq(p.authorities, Supported),
              !.resources = SelectSeq(p.resources, Supported)]

\* The scratch buffer of DnsPacket::write when the sizing loop begins.
ScratchBuffer(p) == WriteQuestions(NewVector, p.questions)

\* C12: write on an OPT or UNKNOWN record emits no bytes, leaves the buffer and
\* its cursor as they were and returns 0; and a packet that fits in max_size
\* and whose TC bit stays clear when it is written without its OPT and UNKNOWN
\* records keeps its TC bit clear when it is written with them.
C12_SkippedRecords ==
    pc = "written"
    => /\ \A i \in 1..Len(Chain(packet0)) :
            ~Supported(Chain(packet0)[i])
            => /\ ResourceRecord_write(Chain(packet0)[i], ScratchBuffer(packet0))
                  = ScratchBuffer(packet0)
               /\ ResourceRecord_write_ret(Chain(packet0)[i], ScratchBuffer(packet0)) = 0
       /\ (/\ FullSize(packet0) <= max_size
           /\ ~WireTC(DnsPacket_write(WithoutSkipped(packet0), NewVector, max_size).b.buf))
          => ~WireTC(out)

\* How many of the chained records write emits from: all of them, or those
\* before the first one whose cumulative size exceeds max.
KeptRecords(p, max) ==
    IF FirstOverflow(p, max) = 0 THEN Len(Chain(p)) ELSE FirstOverflow(p, max) - 1

\* The three section counts are the numbers of records emitted from the
\* answers, authorities and additionals of p, of which the first n chained
\* records were kept.
CountsAreEmitted(an, ns, ar, p, n) ==
    /\ an = EmittedOf(p.answers, FromAnswers(p, n))
    /\ ns = EmittedOf(p.authorities, FromAuthorities(p, n))
    /\ ar = EmittedOf(p.resources, FromResources(p, n))

\* The bytes of the last write.
LastOut == IF pc = "rewritten" THEN out2 ELSE out

\* C22: after write returns, first or second time, the ancount, nscount and
\* arcount in the packet header and on the wire are the numbers of records
\* emitted from answers, authorities and additionals, whatever the header held
\* before the call.
C22_CountsCorrected ==
    pc \in {"written", "rewritten"}
    => /\ CountsAreEmitted(WireCount(LastOut, 1), WireCount(LastOut, 2), WireCount(LastOut, 3),
                           packet0, KeptRecords(packet0, max_size))
       /\ CountsAreEmitted(packet.header.answers, packet.header.authoritative_entries,
                           packet.header.resource_entries,
                           packet0, KeptRecords(packet0, max_size))

\* C23: a packet with zero initial header counts that write emits without
\* truncation, OPT and UNKNOWN records included, has on the wire the section
\* counts of the record encodings emitted, and from_buffer over the emitted
\* bytes succeeds and consumes exactly those bytes.
C23_CountsMatchBytes ==
    (pc = "parsed" /\ ZeroCounts(packet0.header) /\ ~WireTC(out))
    => /\ CountsAreEmitted(WireCount(out, 1), WireCount(out, 2), WireCount(out, 3),
                           packet0, Len(Chain(packet0)))
       /\ parsed.err = "ok"
       /\ parsed.pos = Len(out)

\* ------------------------------------------- the packet codec, read alone

\* The 14 bytes of a packet with qdcount 1 whose only name, at offset 12, is a
\* pointer to offset 12.
SelfPointerPacket == <<0, 0, 0, 0, 0, 1, 0, 0, 0, 0, 0, 0, 192, 12>>

\* A question whose name is a pointer to offset 0x3FFF, behind the end of
\* either buffer.
FarPointer == <<0, 7, 1, 0, 0, 1, 0, 0, 0, 0, 0, 0, 255, 255, 0, 1, 0, 1>>

\* Three answers announced: the first, of type 99, announces 480 bytes of data,
\* which ends at offset 503; nothing follows it.
LongUnknown ==
    <<0, 8, 1, 0, 0, 0, 0, 3, 0, 0, 0, 0,
      0, 0, 99, 0, 1, 0, 0, 0, 60, 1, 224>>

\* One answer whose name, at offset 12, is a pointer to itself.
SelfPointerAnswer ==
    <<0, 6, 128, 0, 0, 0, 0, 1, 0, 0, 0, 0,
      192, 12, 0, 1, 0, 1, 0, 0, 0, 60, 0, 4, 10, 0, 0, 1>>

\* One answer of type OPT (41) with two bytes of data, one additional of
\* type 99 with three, both under the root name.
OptAndUnknown ==
    <<0, 9, 128, 0, 0, 0, 0, 1, 0, 0, 0, 1,
      0, 0, 41, 16, 0, 0, 0, 0, 0, 0, 2, 104, 200,
      0, 0, 99, 0, 1, 0, 0, 0, 60, 0, 3, 1, 2, 3>>

\* The packets whose encodings, whole and cut short, are read.
QuestionOnly == TestPacket(<<NewQuestion(Name_ab, QT("NS", 0))>>, <<>>, <<>>, <<>>)

AllSections ==
    TestPacket(<<NewQuestion(Name_ab, QT("NS", 0))>>,
               <<RR_NS(Name_ab, Name_cab, 3600)>>,
               <<RR_SOA(Name_ab, Name_cab, Name_ab, 2016, 3600, 600, 86400, 2147483647, 3600)>>,
               <<RR_A(Name_cab, <<10, 0, 0, 1>>, 60)>>)

TwoAndTwo ==
    TestPacket(<<NewQuestion(Name_cab, QT("A", 0))>>,
               <<RR_CNAME(Name_cab, Name_ab, 100000), RR_TXT(Name_ab, <<104, 105>>, 5)>>,
               <<>>,
               <<RR_AAAA(Name_cab, <<8193, 3512, 0, 0, 0, 0, 0, 1>>, 60),
                 RR_SRV(Name_ab, 1, 2, 53, Name_cab, 60)>>)

MxPacket == TestPacket(<<>>, <<RR_MX(Name_ab, 10, Name_cab, 3600)>>, <<>>, <<>>)

Encoded(p) == DnsPacket_write(p, NewVector, FixedSize).b.buf

Prefixes(bytes) == {SubSeq(bytes, 1, k) : k \in 0..Len(bytes)}

Wires ==
    {SelfPointerPacket, SelfPointerAnswer, FarPointer, LongUnknown, OptAndUnknown}
    \cup UNION {Prefixes(Encoded(p)) : p \in {QuestionOnly, AllSections, TwoAndTwo, MxPacket}}

\* Bytes arrive, in a growable buffer that ends with them or in the fixed
\* buffer of FixedSize zero-filled bytes, and are read.
InitParse ==
    /\ pc = "received"
    /\ wire \in Wires
    /\ wfixed \in BOOLEAN
    /\ parsed = NoResult
    /\ IdlePacket /\ IdleQType /\ IdleHeader
    /\ IdleRecord /\ IdleLookup /\ IdleQuestion /\ IdleWeb

\* DnsPacket::from_buffer on the received bytes, from offset 0.
FromBuffer ==
    /\ pc = "received"
    /\ parsed' = DnsPacket_from_buffer(Received(wire, wfixed))
    /\ pc' = "done"
    /\ UNCHANGED <<packet0, packet, max_size, out, out2, wire, wfixed, qt, num, qt2, num2,
                   hdr, hbytes, hdr2, herr>>
    /\ UNCHANGED <<recordVars, lookupVars, questionVars, webVars>>

NextParse == FromBuffer

SpecParse == InitParse /\ [][NextParse]_vars

\* --------------------------------------------- claims on DnsPacket::from_buffer

\* C5: from_buffer returns an error whenever a buffer read made while parsing
\* a question (its name, type or class) or a record fails; the 14-byte packet
\* whose only name is a pointer to itself fails with the jump-limit error.
C5_ErrorsPropagate ==
    pc = "done"
    => /\ parsed.dropped # <<>> => parsed.err # "ok"
       /\ wire = SelfPointerPacket => parsed.err = "limit of jumps exceeded"

\* The section counts as the received header holds them.
ReceivedCount(i) == ValueAt(Received(wire, wfixed), 4 + 2 * i, 2)

\* C6: when from_buffer succeeds, the packet holds exactly qdcount questions,
\* ancount answers, nscount authorities and arcount additionals, read in that
\* order from consecutive positions: the first behind the header, each next
\* one where the one before it ended, the cursor left where the last ended.
C6_CountsAndOrder ==
    (pc = "done" /\ parsed.err = "ok")
    => LET p == parsed.packet
           nq == Len(p.questions)
           at == parsed.at
           b == Received(wire, wfixed)
       IN  /\ nq = ReceivedCount(0)
           /\ Len(p.answers) = ReceivedCount(1)
           /\ Len(p.authorities) = ReceivedCount(2)
           /\ Len(p.resources) = ReceivedCount(3)
           /\ Len(at) = nq + Len(Chain(p))
           /\ at # <<>> => at[1][1] = Header_binary_len /\ at[Len(at)][2] = parsed.pos
           /\ at = <<>> => parsed.pos = Header_binary_len
           /\ \A i \in 1..(Len(at) - 1) : at[i + 1][1] = at[i][2]
           /\ \A i \in 1..nq :
                DnsQuestion_read(NewQuestion(<<>>, QT("UNKNOWN", 0)), Seek(b, at[i][1])).q
                    = p.questions[i]
           /\ \A i \in 1..Len(Chain(p)) :
                ResourceRecord_read(Seek(b, at[nq + i][1])).rec = Chain(p)[i]

\* C6's case: a packet with a question and records in every section is read,
\* the authorities and the additionals different in number.
C6_Witness ==
    /\ pc = "done" /\ parsed.err = "ok"
    /\ Len(parsed.packet.questions) = 1
    /\ Len(parsed.packet.answers) = 2
    /\ Len(parsed.packet.authorities) = 0
    /\ Len(parsed.packet.resources) = 2
    /\ parsed.pos = Len(wire)

\* ------------------------------------------------------------ the header

\* The section counts of the generated headers.
HeaderCounts == {<<0, 0, 0, 0>>, <<1, 2, 3, 65535>>}

\* The opcodes of the generated headers: the sixteen of four bits, and two
\* that need a fifth.
Opcodes == 0..17

ResultCodes == {"NOERROR", "FORMERR", "SERVFAIL", "NXDOMAIN", "NOTIMP", "REFUSED"}

\* The received headers: twelve bytes with every value of the second flag
\* byte, whole or cut short.
RawHeader(a, f) == <<5, 57, a, f, 0, 1, 0, 2, 0, 3, 0, 4>>

RawHeaders ==
    {SubSeq(RawHeader(a, f), 1, k) : a \in {0, 133}, f \in 0..255, k \in {3, 4, 11, 12}}

\* Either a header is built, to be written and read back, or header bytes
\* arrive in a growable or in the fixed buffer.
InitHeader ==
    /\ \/ /\ pc = "hnew"
          /\ \E id \in {1337, 65535}, op \in Opcodes, rc \in ResultCodes,
                fl \in [1..8 -> BOOLEAN], c \in HeaderCounts :
               hdr = [id |-> id,
                      recursion_desired |-> fl[1], truncated_message |-> fl[2],
                      authoritative_answer |-> fl[3], opcode |-> op, response |-> fl[4],
                      rescode |-> rc, checking_disabled |-> fl[5], authed_data |-> fl[6],
                      z |-> fl[7], recursion_available |-> fl[8],
                      questions |-> c[1], answers |-> c[2],
                      authoritative_entries |-> c[3], resource_entries |-> c[4]]
          /\ IdleParse
       \/ /\ pc = "hreceived"
          /\ hdr = NewHeader
          /\ wire \in RawHeaders
          /\ wfixed \in BOOLEAN
    /\ hbytes = <<>> /\ hdr2 = NewHeader /\ herr = "none"
    /\ parsed = NoResult
    /\ IdlePacket /\ IdleQType
    /\ IdleRecord /\ IdleLookup /\ IdleQuestion /\ IdleWeb

\* header.write(&mut buffer) on a new VectorPacketBuffer.
HeaderWrite ==
    /\ pc = "hnew"
    /\ hbytes' = DnsHeader_write(hdr, NewVector).buf
    /\ pc' = "hwritten"
    /\ UNCHANGED <<packet0, packet, max_size, out, parsed, out2, wire, wfixed,
                   qt, num, qt2, num2, hdr, hdr2, herr>>
    /\ UNCHANGED <<recordVars, lookupVars, questionVars, webVars>>

\* DnsHeader::new() followed by header.read(&mut buffer), over the bytes just
\* written or over the bytes received.
HeaderRead ==
    /\ pc \in {"hwritten", "hreceived"}
    /\ LET b == IF pc = "hwritten" THEN Received(hbytes, FALSE) ELSE Received(wire, wfixed)
           r == DnsHeader_read(NewHeader, b)
       IN  /\ hdr2' = r.h
           /\ herr' = r.b.err
    /\ pc' = IF pc = "hwritten" THEN "hrestored" ELSE "hread"
    /\ UNCHANGED <<packet0, packet, max_size, out, parsed, out2, wire, wfixed,
                   qt, num, qt2, num2, hdr, hbytes>>
    /\ UNCHANGED <<recordVars, lookupVars, questionVars, webVars>>

NextHeader == HeaderWrite \/ HeaderRead

SpecHeader == InitHeader /\ [][NextHeader]_vars

\* C7: for every header whose opcode is in 0..15, write emits exactly 12 bytes,
\* the value of binary_len, and read over those bytes succeeds and restores
\* every flag, the opcode, the rescode, the id and the four section counts.
C7_HeaderRoundTrip ==
    /\ (pc \in {"hwritten", "hrestored"} /\ hdr.opcode \in 0..15)
       => Len(hbytes) = 12 /\ Len(hbytes) = Header_binary_len
    /\ (pc = "hrestored" /\ hdr.opcode \in 0..15)
       => herr = "ok" /\ hdr2 = hdr

\* A header with the largest four-bit opcode, a rescode other than NOERROR and
\* flags of both bytes set has been written and read back.
C7_Witness ==
    /\ pc = "hrestored"
    /\ hdr.opcode = 15 /\ hdr.rescode = "REFUSED"
    /\ hdr.truncated_message /\ ~hdr.response /\ hdr.authed_data /\ ~hdr.checking_disabled
    /\ hdr.resource_entries = 65535
    /\ hdr2 = hdr

\* The RCODE field of the received bytes: the low four bits of the byte at
\* offset 3.
ReceivedRcode == ByteAt(Received(wire, wfixed), 3) % 16

\* C8: read maps the RCODE field 0..5 to NOERROR, FORMERR, SERVFAIL, NXDOMAIN,
\* NOTIMP, REFUSED and every value 6..15 to NOERROR; whether read fails depends
\* on how many bytes the buffer holds only, never on the RCODE.
C8_RcodeMapping ==
    pc = "hread"
    => /\ herr = (IF Limit(Received(wire, wfixed)) >= 12 THEN "ok" ELSE "end of buffer")
       /\ Limit(Received(wire, wfixed)) >= 4
          => /\ ReceivedRcode = 0 => hdr2.rescode = "NOERROR"
             /\ ReceivedRcode = 1 => hdr2.rescode = "FORMERR"
             /\ ReceivedRcode = 2 => hdr2.rescode = "SERVFAIL"
             /\ ReceivedRcode = 3 => hdr2.rescode = "NXDOMAIN"
             /\ ReceivedRcode = 4 => hdr2.rescode = "NOTIMP"
             /\ ReceivedRcode = 5 => hdr2.rescode = "REFUSED"
             /\ ReceivedRcode \in 6..15 => hdr2.rescode = "NOERROR"

\* Twelve received bytes with RCODE 15 have been read without error.
C8_Witness ==
    /\ pc = "hread" /\ Len(wire) = 12 /\ ~wfixed
    /\ ReceivedRcode = 15
    /\ herr = "ok" /\ hdr2.rescode = "NOERROR" /\ hdr2.resource_entries = 4

\* C25: for every header, opcode values of 16 and more included, the QR bit
\* (bit 7 of the first flag byte) write emits is the response flag, and the RD,
\* TC and AA bits (bits 0, 1, 2) are their flags.
C25_OpcodeInItsBits ==
    pc \in {"hwritten", "hrestored"}
    => /\ Bit(hbytes[3], 7) = BoolBit(hdr.response)
       /\ Bit(hbytes[3], 0) = BoolBit(hdr.recursion_desired)
       /\ Bit(hbytes[3], 1) = BoolBit(hdr.truncated_message)
       /\ Bit(hbytes[3], 2) = BoolBit(hdr.authoritative_answer)

\* ----------------------------------------------------------- the QueryType

\* The largest value of a u16.
U16Max == 65535

\* Every QueryType value: the nine named variants and UNKNOWN(x) for every x.
QueryTypes == {QT(t, 0) : t \in NamedTypes} \cup {QT("UNKNOWN", x) : x \in 0..U16Max}

\* Either a QueryType is given, to be turned into its number and back, or a
\* number is given, to be turned into a QueryType and back.
InitQType ==
    /\ \/ pc = "q" /\ qt \in QueryTypes /\ num = 0
       \/ pc = "n" /\ num \in 0..U16Max /\ qt = QT("UNKNOWN", 0)
    /\ qt2 = QT("UNKNOWN", 0) /\ num2 = 0
    /\ parsed = NoResult
    /\ IdlePacket /\ IdleParse /\ IdleHeader
    /\ IdleRecord /\ IdleLookup /\ IdleQuestion /\ IdleWeb

\* q.to_num(), of the given QueryType or of the one from_num returned.
ToNum ==
    /\ \/ pc = "q" /\ num' = QueryType_to_num(qt) /\ pc' = "q_num" /\ num2' = num2
       \/ pc = "n_type" /\ num2' = QueryType_to_num(qt) /\ pc' = "n_back" /\ num' = num
    /\ UNCHANGED <<packet0, packet, max_size, out, parsed, out2, wire, wfixed,
                   qt, qt2, hdr, hbytes, hdr2, herr>>
    /\ UNCHANGED <<recordVars, lookupVars, questionVars, webVars>>

\* QueryType::from_num(n), of the given number or of the one to_num returned.
FromNum ==
    /\ \/ pc = "n" /\ qt' = QueryType_from_num(num) /\ pc' = "n_type" /\ qt2' = qt2
       \/ pc = "q_num" /\ qt2' = QueryType_from_num(num) /\ pc' = "q_back" /\ qt' = qt
    /\ UNCHANGED <<packet0, packet, max_size, out, parsed, out2, wire, wfixed,
                   num, num2, hdr, hbytes, hdr2, herr>>
    /\ UNCHANGED <<recordVars, lookupVars, questionVars, webVars>>

NextQType == ToNum \/ FromNum

SpecQType == InitQType /\ [][NextQType]_vars

NamedCodes == {1, 2, 5, 6, 15, 16, 28, 33, 41}

\* C9, as stated: for every QueryType value q, UNKNOWN(x) for every 16-bit x
\* included, from_num(q.to_num()) equals q.
C9_RoundTripEveryType == pc = "q_back" => qt2 = qt

\* C9, amended: from_num(q.to_num()) equals q for every named variant and for
\* UNKNOWN(x) when x is none of the nine named codes; for UNKNOWN(x) with x one
\* of them it is the named variant of that code.
C9_RoundTripCanonical ==
    pc = "q_back"
    => /\ (qt.tag # "UNKNOWN" \/ qt.x \notin NamedCodes) => qt2 = qt
       /\ (qt.tag = "UNKNOWN" /\ qt.x \in NamedCodes)
          => qt2.tag \in NamedTypes /\ QueryType_to_num(qt2) = qt.x

\* An UNKNOWN outside the named codes has made the trip.
C9_Witness == pc = "q_back" /\ qt = QT("UNKNOWN", U16Max) /\ num = U16Max /\ qt2 = qt

\* C10: for every 16-bit n, from_num(n).to_num() equals n, and from_num(n) is a
\* named variant exactly when n is one of 1, 2, 5, 6, 15, 16, 28, 33, 41, and
\* UNKNOWN(n) otherwise.
C10_NumRoundTrip ==
    /\ pc \in {"n_type", "n_back"}
       => /\ qt.tag \in NamedTypes <=> num \in NamedCodes
          /\ num \notin NamedCodes => qt = QT("UNKNOWN", num)
    /\ pc = "n_back" => num2 = num

\* The number of OPT has been turned into its named variant and back.
C10_Witness == pc = "n_back" /\ num = 41 /\ qt = QT("OPT", 0) /\ num2 = 41

\* ------------------------------------------------- one record written alone

\* The records written alone: those of the generated packets and records with
\* root names, equal names and extreme field values.
RecordPool ==
    AnswerPool \cup AuthorityPool \cup ResourcePool
    \cup {RR_NS(<<>>, Name_ab, 1),
          RR_CNAME(Name_ab, Name_ab, 0),
          RR_MX(Name_cab, 65535, <<>>, 0),
          RR_SRV(Name_cab, 0, 0, 0, Name_cab, 1),
          RR_SOA(<<>>, <<>>, <<>>, 0, 0, 0, 0, 0, 0),
          RR_A(<<>>, <<0, 0, 0, 0>>, 0),
          RR_TXT(Name_ab, <<>>, 0),
          RR_UNKNOWN(<<>>, 0, 500, 0)}

\* The buffers a record is written to, cursor at the end: empty, behind one
\* question, behind a header and two questions, behind a question and a record.
StartBuffers ==
    {NewVector,
     WriteQuestions(NewVector, <<NewQuestion(Name_ab, QT("NS", 0))>>),
     WriteQuestions(DnsHeader_write(TestHeader, NewVector),
                    <<NewQuestion(Name_ab, QT("NS", 0)), NewQuestion(Name_cab, QT("A", 0))>>),
     WriteRecords(WriteQuestions(NewVector, <<NewQuestion(Name_cab, QT("A", 0))>>),
                  <<RR_A(Name_cab, <<10, 0, 0, 1>>, 60)>>)}

\* The offset of the RDLENGTH slot of the record that begins at offset start of
\* buffer b: behind the owner name, the type, the class and the ttl.
SlotOf(b, start) == ReadQname(Seek(b, start), <<>>).b.pos + 8

\* The RDLENGTH a written record carries.
RdLength(b, start) == ValueAt(b, SlotOf(b, start), 2)

\* The bytes of a record written at offset 0 with its RDLENGTH changed by d: d
\* zero bytes are put behind the record when d is positive, no byte is taken
\* away when it is negative.
Stretched(b, d) ==
    SetU16(b, SlotOf(b, 0), IF RdLength(b, 0) + d < 0 THEN 0 ELSE RdLength(b, 0) + d).buf
    \o [i \in 1..d |-> 0]

\* A record of type OPT (41) with two bytes of data, one of type 99 with three,
\* one of type TXT (16) with two, each under the root name.
RawRecords ==
    {<<0, 0, 41, 16, 0, 0, 0, 0, 0, 0, 2, 104, 200>>,
     <<0, 0, 99, 0, 1, 0, 0, 0, 60, 0, 3, 1, 2, 3>>,
     <<0, 0, 16, 0, 1, 0, 0, 0, 60, 0, 2, 104, 105>>}

\* The records read alone: those write emits, with the RDLENGTH write gave
\* them, one less and two more, and the raw ones.
RecordWires ==
    {Stretched(ResourceRecord_write(rec, NewVector), d) :
       rec \in {r \in RecordPool : r.tag \notin {"OPT", "UNKNOWN"}}, d \in {-1, 0, 2}}
    \cup RawRecords

\* A record is written alone to a buffer, or the bytes of a record have
\* arrived in a growable buffer and are read from offset 0.
InitRecord ==
    /\ \/ /\ pc = "rnew"
          /\ record \in RecordPool
          /\ rbuf0 \in StartBuffers
       \/ /\ pc = "rreceived"
          /\ record = RR_OPT(0, 0, <<>>)
          /\ rbuf0 \in {Received(bytes, FALSE) : bytes \in RecordWires}
    /\ rbuf = rbuf0
    /\ ret = 0
    /\ parsed = NoResult
    /\ IdlePacket /\ IdleParse /\ IdleQType /\ IdleHeader
    /\ IdleLookup /\ IdleQuestion /\ IdleWeb

\* record.write(&mut buffer)
RecordWrite ==
    /\ pc = "rnew"
    /\ rbuf' = ResourceRecord_write(record, rbuf0)
    /\ ret' = ResourceRecord_write_ret(record, rbuf0)
    /\ pc' = "rwritten"
    /\ UNCHANGED <<record, rbuf0>>
    /\ UNCHANGED <<codecVars, lookupVars, questionVars, webVars>>

\* ResourceRecord::read(&mut buffer)
RecordRead ==
    /\ pc = "rreceived"
    /\ rbuf' = ResourceRecord_read(rbuf0).b
    /\ record' = ResourceRecord_read(rbuf0).rec
    /\ pc' = "rread"
    /\ UNCHANGED <<rbuf0, ret>>
    /\ UNCHANGED <<codecVars, lookupVars, questionVars, webVars>>

NextRecord == RecordWrite \/ RecordRead

SpecRecord == InitRecord /\ [][NextRecord]_vars

\* The number of bytes between the end of the RDLENGTH slot and the cursor.
RDataBytes(b, start) == b.pos - (SlotOf(b, start) + 2)

\* C11: for NS, CNAME, MX, SRV and SOA records write emits an RDLENGTH equal to
\* the number of bytes written between the end of the RDLENGTH slot and the end
\* of the record, and leaves the cursor at the end of the record; for A records
\* RDLENGTH is 4, for AAAA 16; the value returned is the number of bytes the
\* cursor advanced.
C11_RdLength ==
    pc = "rwritten"
    => /\ rbuf.err = "ok"
       /\ ret = rbuf.pos - rbuf0.pos
       /\ record.tag \in {"NS", "CNAME", "MX", "SRV", "SOA"}
          => /\ RdLength(rbuf, rbuf0.pos) = RDataBytes(rbuf, rbuf0.pos)
             /\ rbuf.pos = Len(rbuf.buf)
             /\ RDataBytes(rbuf, rbuf0.pos) > 0
       /\ record.tag = "A"
          => RdLength(rbuf, rbuf0.pos) = 4 /\ RDataBytes(rbuf, rbuf0.pos) = 4
       /\ record.tag = "AAAA"
          => RdLength(rbuf, rbuf0.pos) = 16 /\ RDataBytes(rbuf, rbuf0.pos) = 16

\* An SOA record written behind a header and two questions: its names are
\* compressed and its RDLENGTH was back-patched.
C11_Witness ==
    /\ pc = "rwritten"
    /\ record.tag = "SOA" /\ record.domain = Name_ab
    /\ rbuf0.pos > Header_binary_len
    /\ RdLength(rbuf, rbuf0.pos) = 24
    /\ ret = 36

\* C24: for every record type a successful read leaves the cursor exactly
\* rdlength bytes past the end of the RDLENGTH field, whatever rdlength the
\* wire carries.
C24_CursorByRdLength ==
    (pc = "rread" /\ rbuf.err = "ok")
    => rbuf.pos = SlotOf(rbuf0, 0) + 2 + RdLength(rbuf0, 0)

\* ------------------------------------------------- the lookups on a packet

\* The most records in one section of a packet the lookups run on.
MaxSection == 2

\* The String of a name: its labels joined by '.'.
RECURSIVE NameString(_)
NameString(name) ==
    IF name = <<>> THEN <<>>
    ELSE IF Len(name) = 1 THEN Head(name)
    ELSE Head(name) \o <<46>> \o NameString(Tail(name))

\* str::to_lowercase on ASCII text.
ToLowercase(str) == [i \in 1..Len(str) |-> IF str[i] \in 65..90 THEN str[i] + 32 ELSE str[i]]

\* str::ends_with
EndsWith(str, tail) ==
    Len(tail) <= Len(str) /\ SubSeq(str, Len(str) - Len(tail) + 1, Len(str)) = tail

\* The decimal digits of a number.
RECURSIVE Decimal(_)
Decimal(n) == IF n < 10 THEN <<48 + n>> ELSE Decimal(n \div 10) \o <<48 + (n % 10)>>

\* Ipv4Addr::to_string: the four octets in decimal, joined by '.'.
Ipv4ToString(addr) ==
    Decimal(addr[1]) \o <<46>> \o Decimal(addr[2]) \o <<46>>
    \o Decimal(addr[3]) \o <<46>> \o Decimal(addr[4])

\* The values random::<usize>() % n can take.
RandomIndex(n) == 0..(n - 1)

\* An Option is the empty sequence (None) or a sequence of one value (Some).
None == <<>>

Some(v) == <<v>>

\* DnsPacket::get_random_a, the random index being idx.
DnsPacket_get_random_a(p, idx) ==
    IF Len(p.answers) > 0 /\ p.answers[idx + 1].tag = "A"
    THEN Some(Ipv4ToString(p.answers[idx + 1].addr))
    ELSE None

\* The inner loop of get_unresolved_cnames: whether answer is a CNAME whose
\* host is the name of an A record of the answers.
Matched(p, answer) ==
    /\ answer.tag = "CNAME"
    /\ \E i \in 1..Len(p.answers) :
         /\ p.answers[i].tag = "A"
         /\ NameString(p.answers[i].domain) = NameString(answer.host)

\* DnsPacket::get_unresolved_cnames
RECURSIVE UnresolvedFrom(_, _)
UnresolvedFrom(p, answers) ==
    IF answers = <<>> THEN <<>>
    ELSE (IF ~Matched(p, Head(answers)) THEN <<Head(answers)>> ELSE <<>>)
         \o UnresolvedFrom(p, Tail(answers))

DnsPacket_get_unresolved_cnames(p) == UnresolvedFrom(p, p.answers)

\* The test both NS lookups make on an authority record.
SuffixMatches(auth, name) ==
    /\ auth.tag = "NS"
    /\ EndsWith(ToLowercase(name), ToLowercase(NameString(auth.domain)))

\* The inner loop of get_resolved_ns: an A record for every A record of the
\* additionals named as the host of auth.
RECURSIVE GlueFor(_, _)
GlueFor(auth, resources) ==
    IF resources = <<>> THEN <<>>
    ELSE (IF /\ Head(resources).tag = "A"
             /\ NameString(Head(resources).domain) = NameString(auth.host)
          THEN <<RR_A(auth.host, Head(resources).addr, Head(resources).ttl)>>
          ELSE <<>>)
         \o GlueFor(auth, Tail(resources))

\* The outer loop of get_resolved_ns: new_authorities.
RECURSIVE ResolvedFrom(_, _, _)
ResolvedFrom(p, authorities, name) ==
    IF authorities = <<>> THEN <<>>
    ELSE (IF SuffixMatches(Head(authorities), name)
          THEN GlueFor(Head(authorities), p.resources)
          ELSE <<>>)
         \o ResolvedFrom(p, Tail(authorities), name)

\* DnsPacket::get_resolved_ns, the random number being r.
DnsPacket_get_resolved_ns(p, name, r) ==
    IF Len(ResolvedFrom(p, p.authorities, name)) > 0
    THEN Some(Ipv4ToString(
             ResolvedFrom(p, p.authorities, name)[(r % Len(ResolvedFrom(p, p.authorities, name))) + 1].addr))
    ELSE None

\* The loop of get_unresolved_ns: the hosts of the matching NS records.
RECURSIVE UnresolvedNsFrom(_, _)
UnresolvedNsFrom(authorities, name) ==
    IF authorities = <<>> THEN <<>>
    ELSE (IF SuffixMatches(Head(authorities), name)
          THEN <<NameString(Head(authorities).host)>>
          ELSE <<>>)
         \o UnresolvedNsFrom(Tail(authorities), name)

\* DnsPacket::get_unresolved_ns, the random number being r.
DnsPacket_get_unresolved_ns(p, name, r) ==
    IF Len(UnresolvedNsFrom(p.authorities, name)) > 0
    THEN Some(UnresolvedNsFrom(p.authorities, name)[(r % Len(UnresolvedNsFrom(p.authorities, name))) + 1])
    ELSE None

\* The names "A.B", "xa.b", "d.e" and "b".
Name_AB == <<<<65>>, <<66>>>>

Name_xab == <<<<120, 97>>, <<98>>>>

Name_de == <<<<100>>, <<101>>>>

Name_b == <<<<98>>>>

LookupAnswers ==
    {RR_A(Name_ab, <<93, 184, 216, 34>>, 60),
     RR_A(Name_cab, <<10, 0, 0, 255>>, 60),
     RR_CNAME(Name_cab, Name_ab, 300),
     RR_CNAME(Name_ab, Name_de, 300),
     RR_NS(Name_ab, Name_cab, 3600)}

LookupAuthorities ==
    {RR_NS(Name_ab, Name_cab, 3600),
     RR_NS(Name_AB, Name_de, 3600),
     RR_NS(Name_b, Name_de, 3600),
     RR_SOA(Name_ab, Name_cab, Name_ab, 1, 2, 3, 4, 5, 3600)}

LookupResources ==
    {RR_A(Name_cab, <<10, 0, 0, 1>>, 60),
     RR_A(Name_de, <<192, 168, 1, 20>>, 60),
     RR_AAAA(Name_cab, <<8193, 3512, 0, 0, 0, 0, 0, 1>>, 60)}

\* The names asked for.
LookupNames == {NameString(Name_ab), NameString(Name_cab), NameString(Name_xab), NameString(Name_de)}

\* A received packet: its answers alone, or its authorities and additionals.
InitLookup ==
    /\ pc = "lnew"
    /\ \/ \E an \in SeqsUpTo(LookupAnswers, MaxSection) :
            lookup = TestPacket(<<>>, an, <<>>, <<>>)
       \/ \E ns \in SeqsUpTo(LookupAuthorities, MaxSection),
             ar \in SeqsUpTo(LookupResources, MaxSection) :
            lookup = TestPacket(<<>>, <<>>, ns, ar)
    /\ qname \in LookupNames
    /\ found = None
    /\ parsed = NoResult
    /\ IdlePacket /\ IdleParse /\ IdleQType /\ IdleHeader
    /\ IdleRecord /\ IdleQuestion /\ IdleWeb

\* packet.get_random_a()
RandomA ==
    /\ pc = "lnew"
    /\ \/ /\ Len(lookup.answers) = 0
          /\ found' = DnsPacket_get_random_a(lookup, 0)
       \/ \E idx \in RandomIndex(Len(lookup.answers)) :
            found' = DnsPacket_get_random_a(lookup, idx)
    /\ pc' = "random_a"
    /\ UNCHANGED <<lookup, qname>>
    /\ UNCHANGED <<codecVars, recordVars, questionVars, webVars>>

\* packet.get_unresolved_cnames()
UnresolvedCnames ==
    /\ pc = "lnew"
    /\ found' = DnsPacket_get_unresolved_cnames(lookup)
    /\ pc' = "unresolved_cnames"
    /\ UNCHANGED <<lookup, qname>>
    /\ UNCHANGED <<codecVars, recordVars, questionVars, webVars>>

\* packet.get_resolved_ns(qname)
ResolvedNs ==
    /\ pc = "lnew"
    /\ \E r \in RandomIndex(MaxSection * MaxSection) :
         found' = DnsPacket_get_resolved_ns(lookup, qname, r)
    /\ pc' = "resolved_ns"
    /\ UNCHANGED <<lookup, qname>>
    /\ UNCHANGED <<codecVars, recordVars, questionVars, webVars>>

\* packet.get_unresolved_ns(qname)
UnresolvedNs ==
    /\ pc = "lnew"
    /\ \E r \in RandomIndex(MaxSection) :
         found' = DnsPacket_get_unresolved_ns(lookup, qname, r)
    /\ pc' = "unresolved_ns"
    /\ UNCHANGED <<lookup, qname>>
    /\ UNCHANGED <<codecVars, recordVars, questionVars, webVars>>

NextLookup == RandomA \/ UnresolvedCnames \/ ResolvedNs \/ UnresolvedNs

SpecLookup == InitLookup /\ [][NextLookup]_vars

\* The texts of the addresses of the A records among recs.
TextsOfA(recs) == {Ipv4ToString(recs[i].addr) : i \in {j \in 1..Len(recs) : recs[j].tag = "A"}}

\* C13: get_random_a returns the text of the address of one of the A records
\* of answers whenever answers holds at least one A record, and none only when
\* answers holds no A record.
C13_RandomA ==
    pc = "random_a"
    => /\ TextsOfA(lookup.answers) # {} => found # None /\ found[1] \in TextsOfA(lookup.answers)
       /\ found = None => TextsOfA(lookup.answers) = {}

\* Whether some A record of answers is named as answer's target.
TargetResolved(p, answer) ==
    \E i \in 1..Len(p.answers) :
      p.answers[i].tag = "A" /\ p.answers[i].domain = answer.host

\* The CNAME records of answers whose target names no A record of answers.
UnresolvedCnameAt(p, i) == p.answers[i].tag = "CNAME" /\ ~TargetResolved(p, p.answers[i])

\* C14: get_unresolved_cnames returns exactly the CNAME records of answers
\* whose target is not the owner name of an A record of answers: every record
\* returned is a CNAME, and every such CNAME is returned.
C14_UnresolvedCnames ==
    pc = "unresolved_cnames"
    => /\ \A i \in 1..Len(found) : found[i].tag = "CNAME"
       /\ {found[i] : i \in 1..Len(found)}
          = {lookup.answers[i] : i \in {j \in 1..Len(lookup.answers) : UnresolvedCnameAt(lookup, j)}}

\* tail is a proper suffix of str: a suffix shorter than str.
ProperSuffix(str, tail) == EndsWith(str, tail) /\ Len(tail) < Len(str)

\* The addresses of the glue: the A records of the additionals whose owner is
\* the host of an authority NS record whose domain is a proper suffix of name,
\* compared without case.
GlueTexts(p, name) ==
    {Ipv4ToString(p.resources[j].addr) :
       j \in {k \in 1..Len(p.resources) :
                /\ p.resources[k].tag = "A"
                /\ \E i \in 1..Len(p.authorities) :
                     /\ p.authorities[i].tag = "NS"
                     /\ ProperSuffix(ToLowercase(name),
                                     ToLowercase(NameString(p.authorities[i].domain)))
                     /\ p.resources[k].domain = p.authorities[i].host}}

\* C15: get_resolved_ns(qname) returns Some(ip) only if the additionals hold an
\* A record with address ip whose owner is the host of an authority NS record
\* whose domain is a proper suffix of qname, compared without case; and it
\* returns none exactly when there is no such pair.
C15_ResolvedNs ==
    pc = "resolved_ns"
    => /\ found # None => found[1] \in GlueTexts(lookup, qname)
       /\ found = None <=> GlueTexts(lookup, qname) = {}

\* Whether the additionals hold an A record named host.
HasGlue(p, host) ==
    \E k \in 1..Len(p.resources) :
      p.resources[k].tag = "A" /\ NameString(p.resources[k].domain) = host

\* C16: get_unresolved_ns(qname) returns the host of an authority NS record
\* whose domain is a suffix of qname, compared without case, only when the
\* additionals hold no A record for that host.
C16_UnresolvedNs ==
    (pc = "unresolved_ns" /\ found # None)
    =>    /\ \E i \in 1..Len(lookup.authorities) :
               /\ lookup.authorities[i].tag = "NS"
               /\ EndsWith(ToLowercase(qname), ToLowercase(NameString(lookup.authorities[i].domain)))
               /\ NameString(lookup.authorities[i].host) = found[1]
          /\ ~HasGlue(lookup, found[1])

\* tail is a suffix of str on a label boundary: str is tail or ends with '.'
\* followed by tail.
LabelSuffix(str, tail) == str = tail \/ EndsWith(str, <<46>> \o tail)

\* The authority at place i is an NS record whose domain is a suffix of name
\* on a label boundary, compared without case.
Delegates(p, i, name) ==
    /\ p.authorities[i].tag = "NS"
    /\ LabelSuffix(ToLowercase(name), ToLowercase(NameString(p.authorities[i].domain)))

\* C27: get_resolved_ns and get_unresolved_ns select a nameserver only from
\* authority NS records whose domain is a suffix of qname on a label boundary,
\* compared without case: an NS record whose domain is only a raw string tail
\* of qname is never used.
C27_LabelBoundary ==
    /\ (pc = "unresolved_ns" /\ found # None)
       => \E i \in 1..Len(lookup.authorities) :
            /\ Delegates(lookup, i, qname)
            /\ NameString(lookup.authorities[i].host) = found[1]
    /\ (pc = "resolved_ns" /\ found # None)
       => \E i \in 1..Len(lookup.authorities), k \in 1..Len(lookup.resources) :
            /\ Delegates(lookup, i, qname)
            /\ lookup.resources[k].tag = "A"
            /\ lookup.resources[k].domain = lookup.authorities[i].host
            /\ Ipv4ToString(lookup.resources[k].addr) = found[1]

\* ------------------------------------------- one question written and read

\* The questions written: root, lower and upper case names, named and unknown
\* types.
QuestionsWritten ==
    {NewQuestion(n, t) : n \in {<<>>, Name_ab, Name_cab, Name_AB},
                         t \in {QT("A", 0), QT("NS", 0), QT("OPT", 0), QT("UNKNOWN", 99)}}

\* The values of the class field tried.
Classes == {0, 1, 256, 65535}

\* The buffers a question is written to, cursor at the end.
QuestionStarts ==
    {NewVector,
     DnsHeader_write(TestHeader, NewVector),
     WriteQuestions(DnsHeader_write(TestHeader, NewVector), <<NewQuestion(Name_ab, QT("NS", 0))>>)}

\* Received questions behind a header, each ending with its type and class:
\* a name that points to itself, a name whose label runs past the end, a name
\* of two labels, and a name that is a pointer to the second byte of the type,
\* so that the byte 1 there is the length of a label lying in the class field.
QuestionsReceived ==
    {SelfPointerPacket \o <<0, 1, 0, 1>>,
     SubSeq(SelfPointerPacket, 1, 12) \o <<9, 97, 0, 2>>,
     SubSeq(SelfPointerPacket, 1, 12) \o <<1, 97, 1, 98, 0, 0, 16, 0, 1>>,
     SubSeq(SelfPointerPacket, 1, 12) \o <<192, 15, 0, 1, 0, 1>>}

\* The bytes with the class field, the last two bytes, set to c.
WithClass(bytes, c) == SubSeq(bytes, 1, Len(bytes) - 2) \o <<U16(c) \div 256, U16(c) % 256>>

InitQuestion ==
    /\ \/ /\ pc = "qnew"
          /\ question \in QuestionsWritten
          /\ qstart \in QuestionStarts
          /\ qbytes = qstart
       \/ /\ pc = "qreceived"
          /\ question = NewQuestion(<<>>, QT("UNKNOWN", 0))
          /\ \E bytes \in QuestionsReceived :
               /\ qstart = Seek(Received(bytes, FALSE), Header_binary_len)
               /\ qbytes = Received(bytes, FALSE)
    /\ qclass \in Classes \X Classes
    /\ qread = <<>>
    /\ parsed = NoResult
    /\ IdlePacket /\ IdleParse /\ IdleQType /\ IdleHeader
    /\ IdleRecord /\ IdleLookup /\ IdleWeb

\* question.write(&mut buffer)
QuestionWrite ==
    /\ pc = "qnew"
    /\ qbytes' = DnsQuestion_write(question, qstart)
    /\ pc' = "qwritten"
    /\ UNCHANGED <<question, qstart, qclass, qread>>
    /\ UNCHANGED <<codecVars, recordVars, lookupVars, webVars>>

\* The read of from_buffer, a new question read at the offset the question
\* begins at, made on two buffers that differ in the class field only.
QuestionRead ==
    /\ pc \in {"qwritten", "qreceived"}
    /\ qread' = <<DnsQuestion_read(NewQuestion(<<>>, QT("UNKNOWN", 0)),
                                   Seek(Received(WithClass(qbytes.buf, qclass[1]), FALSE), qstart.pos)),
                  DnsQuestion_read(NewQuestion(<<>>, QT("UNKNOWN", 0)),
                                   Seek(Received(WithClass(qbytes.buf, qclass[2]), FALSE), qstart.pos))>>
    /\ pc' = "qread"
    /\ UNCHANGED <<question, qstart, qbytes, qclass>>
    /\ UNCHANGED <<codecVars, recordVars, lookupVars, webVars>>

NextQuestion == QuestionWrite \/ QuestionRead

SpecQuestion == InitQuestion /\ [][NextQuestion]_vars

\* write has emitted the class value 1 behind the qname and the qtype.
ClassOneWritten ==
    /\ qbytes.err = "ok"
    /\ qbytes.buf
       = WriteU16(WriteQname(qstart, question.name), QueryType_to_num(question.qtype)).buf
         \o <<0, 1>>
    /\ qbytes.pos = Len(qbytes.buf)

\* The two reads gave the same name and qtype, the same result and the same
\* final cursor position.
SameRead ==
    /\ qread[1].q = qread[2].q
    /\ qread[1].b.pos = qread[2].b.pos
    /\ qread[1].b.err = qread[2].b.err

\* C17: write always emits the class value 1 behind the qname and the qtype;
\* and read gives the same name, the same qtype and the same final cursor
\* position on any two inputs that differ in the class field only.
C17_ClassIgnored ==
    /\ pc = "qwritten" => ClassOneWritten
    /\ pc = "qread" => SameRead

\* The offsets read_qname reads while it follows a name from offset p.
RECURSIVE NameBytes(_, _, _)
NameBytes(b, p, jumps) ==
    IF jumps > MaxJumps \/ p >= Limit(b) THEN {}
    ELSE IF ByteAt(b, p) \div 64 = 3
    THEN {p, p + 1}
         \cup (IF p + 1 >= Limit(b) THEN {}
               ELSE NameBytes(b, (ByteAt(b, p) % 64) * 256 + ByteAt(b, p + 1), jumps + 1))
    ELSE IF ByteAt(b, p) = 0 THEN {p}
    ELSE IF ~RangeOk(b, p + 1, ByteAt(b, p)) THEN {p}
    ELSE (p..(p + ByteAt(b, p))) \cup NameBytes(b, p + 1 + ByteAt(b, p), jumps)

\* Whether the name of the question read lies clear of the class field.
NameClearOfClass ==
    NameBytes(Received(WithClass(qbytes.buf, qclass[1]), FALSE), qstart.pos, 0)
    \cap {Len(qbytes.buf) - 2, Len(qbytes.buf) - 1} = {}

\* C17, amended: write always emits the class value 1 behind the qname and the
\* qtype; and read gives the same name, the same qtype and the same final
\* cursor position on two inputs that differ in the class field only, provided
\* read_qname does not reach the bytes of the class field while it follows the
\* name.
C17_ClassIgnoredOffName ==
    /\ pc = "qwritten" => ClassOneWritten
    /\ (pc = "qread" /\ NameClearOfClass) => SameRead

\* The question ("c.a.b", NS) written behind a header and the question "a.b",
\* read back from buffers carrying the classes 256 and 1.
C17_Witness ==
    /\ pc = "qread"
    /\ question = NewQuestion(Name_cab, QT("NS", 0))
    /\ qstart.pos = 21
    /\ qclass = <<256, 1>>
    /\ NameClearOfClass
    /\ qread[1].q = question
    /\ qread[1].b.err = "ok"
    /\ qread[1].b.pos = Len(qbytes.buf)

\* ------------------------------------------------------- the web surface

\* A String is the sequence of its character codes. The field names of the
\* request bodies:
Str_domain == <<100, 111, 109, 97, 105, 110>>

Str_mname == <<109, 110, 97, 109, 101>>

Str_rname == <<114, 110, 97, 109, 101>>

Str_serial == <<115, 101, 114, 105, 97, 108>>

Str_refresh == <<114, 101, 102, 114, 101, 115, 104>>

Str_retry == <<114, 101, 116, 114, 121>>

Str_expire == <<101, 120, 112, 105, 114, 101>>

Str_minimum == <<109, 105, 110, 105, 109, 117, 109>>

Str_recordtype == <<114, 101, 99, 111, 114, 100, 116, 121, 112, 101>>

Str_ttl == <<116, 116, 108>>

Str_host == <<104, 111, 115, 116>>

\* The record types of RecordCreateRequest::to_resourcerecord:
Str_A == <<65>>

Str_AAAA == <<65, 65, 65, 65>>

Str_CNAME == <<67, 78, 65, 77, 69>>

\* hex_to_num
hex_to_num(c) ==
    IF c \in 48..57 THEN c - 48
    ELSE IF c \in 97..102 THEN c - 97 + 10
    ELSE IF c \in 65..70 THEN c - 65 + 10
    ELSE 0

\* The loop of url_decode from offset pos, buffer being what was decoded so
\* far: [panic, str]. Behind a '%' the two following bytes are indexed without
\* a test, and an index outside the slice panics.
RECURSIVE UrlDecodeFrom(_, _, _)
UrlDecodeFrom(src_buffer, pos, buffer) ==
    IF pos >= Len(src_buffer) THEN [panic |-> FALSE, str |-> buffer]
    ELSE IF src_buffer[pos + 1] = 37
    THEN IF pos + 2 >= Len(src_buffer)
         THEN [panic |-> TRUE, str |-> buffer]
         ELSE UrlDecodeFrom(src_buffer, pos + 3,
                            Append(buffer, U8(hex_to_num(src_buffer[pos + 2]) * 16
                                              + hex_to_num(src_buffer[pos + 3]))))
    ELSE UrlDecodeFrom(src_buffer, pos + 1, Append(buffer, src_buffer[pos + 1]))

\* url_decode
url_decode(instr) == UrlDecodeFrom(instr, 0, <<>>)

\* The first place of the character sep in str, 0 when there is none.
FirstIndex(str, sep) ==
    IF \E i \in 1..Len(str) : str[i] = sep
    THEN CHOOSE i \in 1..Len(str) : str[i] = sep /\ \A j \in 1..(i - 1) : str[j] # sep
    ELSE 0

\* str::split on one character: the pieces between the separators.
RECURSIVE Split(_, _)
Split(str, sep) ==
    IF FirstIndex(str, sep) = 0 THEN <<str>>
    ELSE <<SubSeq(str, 1, FirstIndex(str, sep) - 1)>>
         \o Split(SubSeq(str, FirstIndex(str, sep) + 1, Len(str)), sep)

\* The closure of parse_formdata on the pieces of the body: a piece with one
\* '=' gives a pair of decoded strings, any other piece is left out.
RECURSIVE DecodePieces(_, _)
DecodePieces(pieces, res) ==
    IF pieces = <<>> THEN [panic |-> FALSE, fields |-> res]
    ELSE IF Len(Split(Head(pieces), 61)) # 2 THEN DecodePieces(Tail(pieces), res)
    ELSE IF \/ url_decode(Split(Head(pieces), 61)[1]).panic
            \/ url_decode(Split(Head(pieces), 61)[2]).panic
    THEN [panic |-> TRUE, fields |-> res]
    ELSE DecodePieces(Tail(pieces),
                      Append(res, <<url_decode(Split(Head(pieces), 61)[1]).str,
                                    url_decode(Split(Head(pieces), 61)[2]).str>>))

\* parse_formdata: [panic, fields], fields being the Vec of (key, value).
parse_formdata(data) == DecodePieces(Split(data, 38), <<>>)

\* d.get(key) on the BTreeMap filled from the fields in order: the value of the
\* last field with this key, as an Option.
RECURSIVE GetField(_, _)
GetField(fields, key) ==
    IF fields = <<>> THEN None
    ELSE IF fields[Len(fields)][1] = key THEN Some(fields[Len(fields)][2])
    ELSE GetField(SubSeq(fields, 1, Len(fields) - 1), key)

\* The value of a string of decimal digits.
RECURSIVE DigitsValue(_)
DigitsValue(str) ==
    IF str = <<>> THEN 0
    ELSE DigitsValue(SubSeq(str, 1, Len(str) - 1)) * 10 + (str[Len(str)] - 48)

AllDigits(str) == str # <<>> /\ \A i \in 1..Len(str) : str[i] \in 48..57

\* str::parse::<u32>().ok() on a string of at most nine characters: Some of the
\* value of a string of digits, None for any other string.
ParseU32(str) ==
    IF AllDigits(str) /\ Len(str) <= 9 THEN Some(DigitsValue(str)) ELSE None

\* Option::and_then(|x| x.parse::<u32>().ok())
AndThenParseU32(opt) == IF opt = None THEN None ELSE ParseU32(opt[1])

\* Option::unwrap_or
UnwrapOr(opt, default) == IF opt = None THEN default ELSE opt[1]

\* str::parse::<Ipv4Addr>().ok(): four decimal numbers up to 255, of at most
\* three digits, between dots.
ParseIpv4(str) ==
    IF /\ Len(Split(str, 46)) = 4
       /\ \A i \in 1..4 :
            /\ AllDigits(Split(str, 46)[i])
            /\ Len(Split(str, 46)[i]) <= 3
            /\ DigitsValue(Split(str, 46)[i]) <= 255
    THEN Some([i \in 1..4 |-> DigitsValue(Split(str, 46)[i])])
    ELSE None

IsHex(c) == c \in 48..57 \/ c \in 97..102 \/ c \in 65..70

\* The value of a group of hexadecimal digits.
RECURSIVE HexValue(_)
HexValue(str) ==
    IF str = <<>> THEN 0
    ELSE HexValue(SubSeq(str, 1, Len(str) - 1)) * 16 + hex_to_num(str[Len(str)])

\* A group of an IPv6 address: one to four hexadecimal digits.
IsGroup(str) == Len(str) \in 1..4 /\ \A i \in 1..Len(str) : IsHex(str[i])

\* The groups of a part of an IPv6 address, none for the empty part.
Groups(str) == IF str = <<>> THEN <<>> ELSE Split(str, 58)

\* The places where "::" begins in str.
DoubleColons(str) == {i \in 1..(Len(str) - 1) : str[i] = 58 /\ str[i + 1] = 58}

\* The eight segments given by the groups before and behind a "::".
Segments(left, right) ==
    [i \in 1..8 |-> IF i <= Len(left) THEN HexValue(left[i])
                    ELSE IF i > 8 - Len(right) THEN HexValue(right[i - (8 - Len(right))])
                    ELSE 0]

\* str::parse::<Ipv6Addr>().ok() on the colon-hex forms: eight groups, or fewer
\* around one "::".
ParseIpv6(str) ==
    IF DoubleColons(str) = {}
    THEN IF Len(Groups(str)) = 8 /\ \A i \in 1..8 : IsGroup(Groups(str)[i])
         THEN Some(Segments(Groups(str), <<>>))
         ELSE None
    ELSE IF Cardinality(DoubleColons(str)) # 1 THEN None
    ELSE LET at == CHOOSE i \in DoubleColons(str) : TRUE
             left == Groups(SubSeq(str, 1, at - 1))
             right == Groups(SubSeq(str, at + 2, Len(str)))
         IN  IF /\ Len(left) + Len(right) <= 7
                /\ \A i \in 1..Len(left) : IsGroup(left[i])
                /\ \A i \in 1..Len(right) : IsGroup(right[i])
             THEN Some(Segments(left, right))
             ELSE None

\* The name a String holds: its labels.
NameOf(str) == IF str = <<>> THEN <<>> ELSE Split(str, 46)

\* What serving one request comes to: the status of the response (0 when the
\* handler panicked before it responded), the zone table, whether save() was
\* called, whether the serving thread panicked.
Outcome(code, table, saved, panic) ==
    [status |-> code, zones |-> table, saved |-> saved, panic |-> panic]

\* error_response: a 400, nothing else done.
error_response(table) == Outcome(400, table, FALSE, FALSE)

\* A panic under the handler: no response from it, the loop is left.
Panicked(table) == Outcome(0, table, FALSE, TRUE)

\* A value of a decoded JSON body: a string, a number or a boolean.
JsonStr(str) == [kind |-> "str", str |-> str, num |-> 0]

JsonNum(n) == [kind |-> "num", str |-> <<>>, num |-> n]

JsonBool == [kind |-> "bool", str |-> <<>>, num |-> 0]

\* Whether a JSON object decodes to a struct field of type String (required),
\* u32 (required), Option<String> or Option<u32>: a required field is there and
\* of its type, an optional field is absent or of its type.
HasString(fields, key) == GetField(fields, key) # None /\ GetField(fields, key)[1].kind = "str"

HasNumber(fields, key) == GetField(fields, key) # None /\ GetField(fields, key)[1].kind = "num"

MayString(fields, key) == GetField(fields, key) = None \/ GetField(fields, key)[1].kind = "str"

MayNumber(fields, key) == GetField(fields, key) = None \/ GetField(fields, key)[1].kind = "num"

OptString(fields, key) ==
    IF GetField(fields, key) = None THEN None ELSE Some(GetField(fields, key)[1].str)

OptNumber(fields, key) ==
    IF GetField(fields, key) = None THEN None ELSE Some(GetField(fields, key)[1].num)

\* A Result: Ok(value) or Err.
Ok(value) == [ok |-> TRUE, value |-> value]

\* ZoneCreateRequest as an Err value.
NoZoneRequest ==
    [ok |-> FALSE,
     value |-> [domain |-> <<>>, mname |-> <<>>, rname |-> <<>>, serial |-> None,
                refresh |-> None, retry |-> None, expire |-> None, minimum |-> None]]

\* ZoneCreateRequest::from_formdata
ZoneCreateRequest_from_formdata(fields) ==
    IF \/ GetField(fields, Str_domain) = None
       \/ GetField(fields, Str_mname) = None
       \/ GetField(fields, Str_rname) = None
    THEN NoZoneRequest
    ELSE Ok([domain |-> GetField(fields, Str_domain)[1],
             mname |-> GetField(fields, Str_mname)[1],
             rname |-> GetField(fields, Str_rname)[1],
             serial |-> AndThenParseU32(GetField(fields, Str_serial)),
             refresh |-> AndThenParseU32(GetField(fields, Str_refresh)),
             retry |-> AndThenParseU32(GetField(fields, Str_retry)),
             expire |-> AndThenParseU32(GetField(fields, Str_expire)),
             minimum |-> AndThenParseU32(GetField(fields, Str_minimum))])

\* decode_json::<ZoneCreateRequest> on a body: json.valid tells whether the body
\* is JSON, json.fields are the members of the object it holds.
ZoneCreateRequest_decode_json(json) ==
    IF /\ json.valid
       /\ HasString(json.fields, Str_domain)
       /\ HasString(json.fields, Str_mname)
       /\ HasString(json.fields, Str_rname)
       /\ MayNumber(json.fields, Str_serial)
       /\ MayNumber(json.fields, Str_refresh)
       /\ MayNumber(json.fields, Str_retry)
       /\ MayNumber(json.fields, Str_expire)
       /\ MayNumber(json.fields, Str_minimum)
    THEN Ok([domain |-> GetField(json.fields, Str_domain)[1].str,
             mname |-> GetField(json.fields, Str_mname)[1].str,
             rname |-> GetField(json.fields, Str_rname)[1].str,
             serial |-> OptNumber(json.fields, Str_serial),
             refresh |-> OptNumber(json.fields, Str_refresh),
             retry |-> OptNumber(json.fields, Str_retry),
             expire |-> OptNumber(json.fields, Str_expire),
             minimum |-> OptNumber(json.fields, Str_minimum)])
    ELSE NoZoneRequest

\* A zone built with the default timers whatever the request holds.
NewZone_default_timers(create_data) ==
    [domain |-> create_data.domain,
     mname |-> create_data.mname,
     rname |-> create_data.rname,
     serial |-> 0,
     refresh |-> 3600,
     retry |-> 3600,
     expire |-> 3600,
     minimum |-> 3600,
     records |-> {}]

\* Zone::new and the assignments behind it in handle_authority.
NewZone(create_data) ==
    [domain |-> create_data.domain,
     mname |-> create_data.mname,
     rname |-> create_data.rname,
     serial |-> 0,
     refresh |-> UnwrapOr(create_data.refresh, 3600),
     retry |-> UnwrapOr(create_data.retry, 3600),
     expire |-> UnwrapOr(create_data.expire, 3600),
     minimum |-> UnwrapOr(create_data.minimum, 3600),
     records |-> {}]

\* add_zone: the table is keyed by domain.
add_zone(table, zone) == {z \in table : z.domain # zone.domain} \cup {zone}

\* The POST arm of handle_authority once the body is decoded: the zone is
\* added, save() is called, the response is 201.
CreateZone(table, create_data) ==
    IF ~create_data.ok THEN error_response(table)
    ELSE Outcome(201, add_zone(table, NewZone(create_data.value)), TRUE, FALSE)

\* The form branch of the POST arm, parsed being what parse_formdata gave.
CreateZoneFromForm(table, formdata) ==
    IF formdata.panic THEN Panicked(table)
    ELSE CreateZone(table, ZoneCreateRequest_from_formdata(formdata.fields))

\* handle_authority
handle_authority(req, table) ==
    CASE req.method = "GET" -> Outcome(200, table, FALSE, FALSE)
      [] req.method = "POST" ->
           IF req.json_input
           THEN CreateZone(table, ZoneCreateRequest_decode_json(req.json))
           ELSE CreateZoneFromForm(table, parse_formdata(req.form))
      [] OTHER -> error_response(table)

\* RecordCreateRequest as an Err value.
NoRecordRequest ==
    [ok |-> FALSE, value |-> [recordtype |-> <<>>, domain |-> <<>>, ttl |-> 0, host |-> None]]

\* RecordCreateRequest::from_formdata
RecordCreateRequest_from_formdata(fields) ==
    IF \/ GetField(fields, Str_recordtype) = None
       \/ GetField(fields, Str_domain) = None
       \/ AndThenParseU32(GetField(fields, Str_ttl)) = None
    THEN NoRecordRequest
    ELSE Ok([recordtype |-> GetField(fields, Str_recordtype)[1],
             domain |-> GetField(fields, Str_domain)[1],
             ttl |-> AndThenParseU32(GetField(fields, Str_ttl))[1],
             host |-> GetField(fields, Str_host)])

\* decode_json::<RecordCreateRequest>
RecordCreateRequest_decode_json(json) ==
    IF /\ json.valid
       /\ HasString(json.fields, Str_recordtype)
       /\ HasString(json.fields, Str_domain)
       /\ HasNumber(json.fields, Str_ttl)
       /\ MayString(json.fields, Str_host)
    THEN Ok([recordtype |-> GetField(json.fields, Str_recordtype)[1].str,
             domain |-> GetField(json.fields, Str_domain)[1].str,
             ttl |-> GetField(json.fields, Str_ttl)[1].num,
             host |-> OptString(json.fields, Str_host)])
    ELSE NoRecordRequest

\* Option::and_then on the host, parse being the parser of the address.
AndThenParseIpv4(opt) == IF opt = None THEN None ELSE ParseIpv4(opt[1])

AndThenParseIpv6(opt) == IF opt = None THEN None ELSE ParseIpv6(opt[1])

\* RecordCreateRequest::to_resourcerecord: an Option of the record.
to_resourcerecord(r) ==
    CASE r.recordtype = Str_A ->
           IF AndThenParseIpv4(r.host) = None THEN None
           ELSE Some(RR_A(NameOf(r.domain), AndThenParseIpv4(r.host)[1], r.ttl))
      [] r.recordtype = Str_AAAA ->
           IF AndThenParseIpv6(r.host) = None THEN None
           ELSE Some(RR_AAAA(NameOf(r.domain), AndThenParseIpv6(r.host)[1], r.ttl))
      [] r.recordtype = Str_CNAME ->
           IF r.host = None THEN None
           ELSE Some(RR_CNAME(NameOf(r.domain), NameOf(r.host[1]), r.ttl))
      [] OTHER -> None

\* get_zone_mut: the zone kept under this domain, as an Option.
get_zone_mut(table, zone) ==
    IF \E z \in table : z.domain = zone
    THEN Some(CHOOSE z \in table : z.domain = zone)
    ELSE None

\* get_zone: the zone whose domain is the longest suffix of the name.
get_zone(table, name) ==
    IF \E z \in table : EndsWith(name, z.domain)
    THEN Some(CHOOSE z \in table :
                /\ EndsWith(name, z.domain)
                /\ \A y \in table : EndsWith(name, y.domain) => Len(y.domain) <= Len(z.domain))
    ELSE None

\* zone.add_record on the zone of the table found under this domain.
add_record(table, zone, rr) ==
    {IF z.domain = zone THEN [z EXCEPT !.records = @ \cup {rr}] ELSE z : z \in table}

\* The POST arm of handle_zone once the record is built: the zone is looked
\* up, the record added, save() called, the response is 201.
AddRecord(table, zone, rr) ==
    IF rr = None THEN error_response(table)
    ELSE IF get_zone_mut(table, zone) = None THEN error_response(table)
    ELSE Outcome(201, add_record(table, zone, rr[1]), TRUE, FALSE)

\* The POST arm of handle_zone once the body is decoded.
CreateRecord(table, zone, create_data) ==
    IF ~create_data.ok THEN error_response(table)
    ELSE AddRecord(table, zone, to_resourcerecord(create_data.value))

\* The form branch of the POST arm, formdata being what parse_formdata gave.
CreateRecordFromForm(table, zone, formdata) ==
    IF formdata.panic THEN Panicked(table)
    ELSE CreateRecord(table, zone, RecordCreateRequest_from_formdata(formdata.fields))

\* handle_zone
handle_zone(req, zone, table) ==
    CASE req.method = "GET" ->
           IF get_zone(table, zone) = None THEN error_response(table)
           ELSE Outcome(200, table, FALSE, FALSE)
      [] req.method = "POST" ->
           IF req.json_input
           THEN CreateRecord(table, zone, RecordCreateRequest_decode_json(req.json))
           ELSE CreateRecordFromForm(table, zone, parse_formdata(req.form))
      [] OTHER -> error_response(table)

\* The end of the loop body of run_webserver, for a URL that matches none of
\* the three patterns: the form of a POST is parsed and printed, the response
\* is 404.
NotFound(req, table) ==
    IF req.method = "POST" /\ parse_formdata(req.form).panic THEN Panicked(table)
    ELSE Outcome(404, table, FALSE, FALSE)

\* -------------------------------------------- the requests and the web loop

\* The most requests the web loop is followed over.
MaxRequests == 2

\* The texts of the request bodies.
\* "a.b"
Text_ab == <<97, 46, 98>>

\* "x.y"
Text_xy == <<120, 46, 121>>

\* "w.a.b"
Text_wab == <<119, 46, 97, 46, 98>>

\* "c.d"
Text_cd == <<99, 46, 100>>

\* "n"
Text_n == <<110>>

\* "r"
Text_r == <<114>>

\* "5"
Text_5 == <<53>>

\* "7"
Text_7 == <<55>>

\* "60"
Text_60 == <<54, 48>>

\* "61"
Text_61 == <<54, 49>>

\* "62"
Text_62 == <<54, 50>>

\* "x"
Text_x == <<120>>

\* "%"
Text_percent == <<37>>

\* "-1"
Text_minus_1 == <<45, 49>>

\* "6%"
Text_6_percent == <<54, 37>>

\* "1.2.3.4"
Text_1_2_3_4 == <<49, 46, 50, 46, 51, 46, 52>>

\* "1.2.3"
Text_1_2_3 == <<49, 46, 50, 46, 51>>

\* "::1"
Text_loopback6 == <<58, 58, 49>>

\* "MX"
Text_MX == <<77, 88>>

\* "dom%61in"
Text_domain_escaped == <<100, 111, 109, 37, 54, 49, 105, 110>>

\* "k"
Text_k == <<107>>

\* key=value
Pair(key, value) == key \o <<61>> \o value

\* The pieces that are there (each an Option), joined by '&'.
RECURSIVE JoinPieces(_)
JoinPieces(opts) ==
    IF opts = <<>> THEN <<>>
    ELSE IF Head(opts) = None THEN JoinPieces(Tail(opts))
    ELSE IF JoinPieces(Tail(opts)) = <<>> THEN Head(opts)[1]
    ELSE Head(opts)[1] \o <<38>> \o JoinPieces(Tail(opts))

NoJson == [valid |-> FALSE, fields |-> <<>>]

\* The form bodies of POST /authority: each field absent or present, the key
\* of domain plain or escaped, the numbers good, not a number, or a '%' with
\* nothing behind it.
ZoneForms ==
    {JoinPieces(<<d, mr[1], mr[2], sf[1], sf[2], rest>>) :
       d \in {None, Some(Pair(Str_domain, Text_ab)), Some(Pair(Text_domain_escaped, Text_ab))},
       mr \in {<<None, None>>,
               <<Some(Pair(Str_mname, Text_n)), None>>,
               <<Some(Pair(Str_mname, Text_n)), Some(Pair(Str_rname, Text_r))>>},
       sf \in {<<None, None>>,
               <<Some(Pair(Str_serial, Text_5)), None>>,
               <<None, Some(Pair(Str_refresh, Text_7))>>,
               <<Some(Pair(Str_serial, Text_5)), Some(Pair(Str_refresh, Text_7))>>,
               <<None, Some(Pair(Str_refresh, Text_percent))>>},
       rest \in {None,
                 Some(JoinPieces(<<Some(Pair(Str_retry, Text_60)), Some(Pair(Str_expire, Text_61)),
                                   Some(Pair(Str_minimum, Text_62))>>)),
                 Some(JoinPieces(<<Some(Pair(Str_retry, Text_60)), Some(Pair(Str_minimum, Text_x))>>))}}

\* The JSON bodies of POST /authority: not JSON, a required field missing, a
\* required field of the wrong type, the required fields alone, all fields.
ZoneJsons ==
    {NoJson,
     [valid |-> TRUE, fields |-> <<<<Str_domain, JsonStr(Text_ab)>>, <<Str_mname, JsonStr(Text_n)>>>>],
     [valid |-> TRUE, fields |-> <<<<Str_domain, JsonBool>>, <<Str_mname, JsonStr(Text_n)>>,
                                   <<Str_rname, JsonStr(Text_r)>>>>],
     [valid |-> TRUE, fields |-> <<<<Str_domain, JsonStr(Text_ab)>>, <<Str_mname, JsonStr(Text_n)>>,
                                   <<Str_rname, JsonStr(Text_r)>>>>],
     [valid |-> TRUE, fields |-> <<<<Str_domain, JsonStr(Text_xy)>>, <<Str_mname, JsonStr(Text_n)>>,
                                   <<Str_rname, JsonStr(Text_r)>>, <<Str_serial, JsonNum(5)>>,
                                   <<Str_refresh, JsonNum(7)>>, <<Str_retry, JsonNum(60)>>,
                                   <<Str_expire, JsonNum(61)>>, <<Str_minimum, JsonNum(62)>>>>]}

\* The form bodies of POST /authority/{zone}: the domain and the ttl absent,
\* good or bad, with each pairing of record type and host.
RecordForms ==
    {JoinPieces(<<th[1], dt[1], dt[2], th[2]>>) :
       dt \in {<<Some(Pair(Str_domain, Text_wab)), Some(Pair(Str_ttl, Text_60))>>,
               <<None, Some(Pair(Str_ttl, Text_60))>>,
               <<Some(Pair(Str_domain, Text_wab)), None>>,
               <<Some(Pair(Str_domain, Text_wab)), Some(Pair(Str_ttl, Text_minus_1))>>,
               <<Some(Pair(Str_domain, Text_wab)), Some(Pair(Str_ttl, Text_6_percent))>>},
       th \in {<<None, Some(Pair(Str_host, Text_1_2_3_4))>>,
               <<Some(Pair(Str_recordtype, Str_A)), Some(Pair(Str_host, Text_1_2_3_4))>>,
               <<Some(Pair(Str_recordtype, Str_A)), None>>,
               <<Some(Pair(Str_recordtype, Str_A)), Some(Pair(Str_host, Text_1_2_3))>>,
               <<Some(Pair(Str_recordtype, Str_A)), Some(Pair(Str_host, Text_loopback6))>>,
               <<Some(Pair(Str_recordtype, Str_AAAA)), Some(Pair(Str_host, Text_loopback6))>>,
               <<Some(Pair(Str_recordtype, Str_AAAA)), Some(Pair(Str_host, Text_1_2_3_4))>>,
               <<Some(Pair(Str_recordtype, Str_CNAME)), Some(Pair(Str_host, Text_cd))>>,
               <<Some(Pair(Str_recordtype, Str_CNAME)), None>>,
               <<Some(Pair(Str_recordtype, Text_MX)), Some(Pair(Str_host, Text_cd))>>}}

\* The JSON bodies of POST /authority/{zone}: not JSON, the ttl missing, the
\* ttl of the wrong type, a good A record, an A record with a bad host.
RecordJsons ==
    {NoJson,
     [valid |-> TRUE, fields |-> <<<<Str_recordtype, JsonStr(Str_A)>>, <<Str_domain, JsonStr(Text_wab)>>,
                                   <<Str_host, JsonStr(Text_1_2_3_4)>>>>],
     [valid |-> TRUE, fields |-> <<<<Str_recordtype, JsonStr(Str_A)>>, <<Str_domain, JsonStr(Text_wab)>>,
                                   <<Str_ttl, JsonBool>>, <<Str_host, JsonStr(Text_1_2_3_4)>>>>],
     [valid |-> TRUE, fields |-> <<<<Str_recordtype, JsonStr(Str_A)>>, <<Str_domain, JsonStr(Text_wab)>>,
                                   <<Str_ttl, JsonNum(300)>>, <<Str_host, JsonStr(Text_1_2_3_4)>>>>],
     [valid |-> TRUE, fields |-> <<<<Str_recordtype, JsonStr(Str_A)>>, <<Str_domain, JsonStr(Text_wab)>>,
                                   <<Str_ttl, JsonNum(300)>>, <<Str_host, JsonStr(Text_cd)>>>>]}

Request(method, url, zone, json_input, form, json) ==
    [method |-> method, url |-> url, zone |-> zone, json_input |-> json_input,
     form |-> form, json |-> json]

\* The requests for /authority.
AuthorityRequests ==
    {Request("POST", "authority", <<>>, FALSE, f, NoJson) : f \in ZoneForms}
    \cup {Request("POST", "authority", <<>>, TRUE, <<>>, j) : j \in ZoneJsons}
    \cup {Request(m, "authority", <<>>, FALSE, <<>>, NoJson) : m \in {"GET", "DELETE"}}

\* The requests for /authority/a.b and /authority/x.y.
ZoneRequests ==
    {Request("POST", "zone", z, FALSE, f, NoJson) : z \in {Text_ab, Text_xy}, f \in RecordForms}
    \cup {Request("POST", "zone", z, TRUE, <<>>, j) : z \in {Text_ab, Text_xy}, j \in RecordJsons}
    \cup {Request(m, "zone", z, FALSE, <<>>, NoJson) : m \in {"GET", "DELETE"}, z \in {Text_ab, Text_xy}}

\* The requests for a URL none of the patterns matches.
OtherRequests ==
    {Request("GET", "other", <<>>, FALSE, <<>>, NoJson),
     Request("POST", "other", <<>>, FALSE, Pair(Text_k, Text_x), NoJson),
     Request("POST", "other", <<>>, FALSE, Pair(Text_k, Text_percent), NoJson)}

\* A zone loaded from the zone file.
LoadedZone ==
    [domain |-> Text_ab, mname |-> Text_n, rname |-> Text_r, serial |-> 2016,
     refresh |-> 3600, retry |-> 600, expire |-> 86400, minimum |-> 3600, records |-> {}]

\* The web loop starts with the authority as it was loaded: empty, or with the
\* zone a.b.
InitWeb ==
    /\ pc = "serving"
    /\ zones \in {{}, {LoadedZone}}
    /\ request = NoRequest
    /\ status = 0
    /\ saves = <<>>
    /\ served = 0
    /\ parsed = NoResult
    /\ IdlePacket /\ IdleParse /\ IdleQType /\ IdleHeader
    /\ IdleRecord /\ IdleLookup /\ IdleQuestion

\* One turn of the loop in which a failed save() ends the loop.
Served_save_fatal(req, outcome, ok) ==
    /\ request' = req
    /\ status' = outcome.status
    /\ zones' = outcome.zones
    /\ saves' = IF outcome.saved THEN Append(saves, ok) ELSE saves
    /\ served' = served + 1
    /\ pc' = IF outcome.panic \/ (outcome.saved /\ ~ok) THEN "dead" ELSE "serving"
    /\ UNCHANGED <<codecVars, recordVars, lookupVars, questionVars>>

\* The effect of one turn of the loop of run_webserver with the outcome of the
\* handler: save() was called or not, and when it was it succeeded (ok) or
\* failed, which is only printed; a panic ends the loop.
Served(req, outcome, ok) ==
    /\ request' = req
    /\ status' = outcome.status
    /\ zones' = outcome.zones
    /\ saves' = IF outcome.saved THEN Append(saves, ok) ELSE saves
    /\ served' = served + 1
    /\ pc' = IF outcome.panic THEN "dead" ELSE "serving"
    /\ UNCHANGED <<codecVars, recordVars, lookupVars, questionVars>>

\* A request whose URL matches ^/authority$.
ServeAuthority ==
    /\ pc = "serving" /\ served < MaxRequests
    /\ \E req \in AuthorityRequests, ok \in BOOLEAN :
         Served(req, handle_authority(req, zones), ok)

\* A request whose URL matches ^/authority/([A-Za-z0-9-.]+)$.
ServeZone ==
    /\ pc = "serving" /\ served < MaxRequests
    /\ \E req \in ZoneRequests, ok \in BOOLEAN :
         Served(req, handle_zone(req, req.zone, zones), ok)

\* A request for any other URL but /cache.
ServeOther ==
    /\ pc = "serving" /\ served < MaxRequests
    /\ \E req \in OtherRequests, ok \in BOOLEAN :
         Served(req, NotFound(req, zones), ok)

NextWeb == ServeAuthority \/ ServeZone \/ ServeOther

SpecWeb == InitWeb /\ [][NextWeb]_vars

\* ------------------------------------------------- the web surface, claims

\* What the body of a request supplies under a key: a number, a text.
BodyNumber(req, key) ==
    IF req.json_input THEN OptNumber(req.json.fields, key)
    ELSE AndThenParseU32(GetField(parse_formdata(req.form).fields, key))

BodyText(req, key) ==
    IF req.json_input THEN OptString(req.json.fields, key)
    ELSE GetField(parse_formdata(req.form).fields, key)

\* The last request was a POST /authority answered with 201.
ZoneCreated ==
    /\ request.method = "POST" /\ request.url = "authority"
    /\ status = 201

\* The zone of the table under the domain of the last request.
CreatedZone == get_zone_mut(zones, BodyText(request, Str_domain)[1])[1]

\* C18: the zone created by POST /authority has the serial the request body
\* supplies, and 0 when the body supplies none.
C18_Serial ==
    ZoneCreated => CreatedZone.serial = UnwrapOr(BodyNumber(request, Str_serial), 0)

\* C19: the zone created by POST /authority has, for each of refresh, retry,
\* expire and minimum, the unsigned integer the request body supplies for it,
\* and 3600 for each of them the body does not supply.
C19_Timers ==
    ZoneCreated =>
        /\ CreatedZone.refresh = UnwrapOr(BodyNumber(request, Str_refresh), 3600)
        /\ CreatedZone.retry = UnwrapOr(BodyNumber(request, Str_retry), 3600)
        /\ CreatedZone.expire = UnwrapOr(BodyNumber(request, Str_expire), 3600)
        /\ CreatedZone.minimum = UnwrapOr(BodyNumber(request, Str_minimum), 3600)

\* A form body with refresh=7 and retry=60 but neither expire nor a numeric
\* minimum has made a zone with those two values and 3600 for the others.
C19_Witness ==
    /\ ZoneCreated
    /\ ~request.json_input
    /\ BodyNumber(request, Str_refresh) = Some(7)
    /\ BodyNumber(request, Str_retry) = Some(60)
    /\ BodyNumber(request, Str_expire) = None
    /\ BodyNumber(request, Str_minimum) = None
    /\ CreatedZone.refresh = 7 /\ CreatedZone.retry = 60
    /\ CreatedZone.expire = 3600 /\ CreatedZone.minimum = 3600
    /\ CreatedZone \in zones

\* A text as the client wrote it: url-decoded when its escapes are whole, as it
\* stands when one is cut off.
DecodedOrRaw(text) == IF url_decode(text).panic THEN text ELSE url_decode(text).str

\* The fields a form body was written with, one for each piece with one '='.
RECURSIVE WrittenFields(_)
WrittenFields(pieces) ==
    IF pieces = <<>> THEN <<>>
    ELSE IF Len(Split(Head(pieces), 61)) # 2 THEN WrittenFields(Tail(pieces))
    ELSE <<<<DecodedOrRaw(Split(Head(pieces), 61)[1]), DecodedOrRaw(Split(Head(pieces), 61)[2])>>>>
         \o WrittenFields(Tail(pieces))

\* The body holds a text, an unsigned integer, under the key.
WrittenText(req, key) ==
    IF req.json_input
    THEN IF req.json.valid /\ HasString(req.json.fields, key)
         THEN Some(GetField(req.json.fields, key)[1].str) ELSE None
    ELSE GetField(WrittenFields(Split(req.form, 38)), key)

WrittenUnsigned(req, key) ==
    IF req.json_input
    THEN req.json.valid /\ HasNumber(req.json.fields, key)
    ELSE AndThenParseU32(GetField(WrittenFields(Split(req.form, 38)), key)) # None

\* A POST /authority body without one of the required fields.
MalformedZoneCreate(req) ==
    \E key \in {Str_domain, Str_mname, Str_rname} : WrittenText(req, key) = None

\* The host is missing, or not an address of the family of the record type.
BadHost(req, family) ==
    \/ WrittenText(req, Str_host) = None
    \/ family = 4 /\ ParseIpv4(WrittenText(req, Str_host)[1]) = None
    \/ family = 6 /\ ParseIpv6(WrittenText(req, Str_host)[1]) = None

\* A POST /authority/{zone} body without a required field, with a ttl that is
\* no unsigned integer, with a record type other than A, AAAA, CNAME, or with
\* a host that is missing or no address of the record's family; or a zone that
\* is not in the table.
MalformedRecordCreate(req, table) ==
    \/ WrittenText(req, Str_recordtype) = None
    \/ WrittenText(req, Str_domain) = None
    \/ ~WrittenUnsigned(req, Str_ttl)
    \/ WrittenText(req, Str_recordtype)[1] \notin {Str_A, Str_AAAA, Str_CNAME}
    \/ WrittenText(req, Str_recordtype)[1] = Str_A /\ BadHost(req, 4)
    \/ WrittenText(req, Str_recordtype)[1] = Str_AAAA /\ BadHost(req, 6)
    \/ get_zone_mut(table, req.zone) = None

Malformed(req, table) ==
    /\ req.method = "POST"
    /\ \/ req.url = "authority" /\ MalformedZoneCreate(req)
       \/ req.url = "zone" /\ MalformedRecordCreate(req, table)

\* C20: a malformed POST /authority or POST /authority/{zone} (a required
\* field missing, a ttl that is no unsigned integer, a record type outside A,
\* AAAA, CNAME, a missing or invalid host, a zone that does not exist) is
\* answered with 400, leaves the zone table as it was, and save() is not called.
C20_Malformed ==
    [][Malformed(request', zones) =>
          (status' = 400 /\ zones' = zones /\ saves' = saves)]_vars

\* The zone or the record the request asked for is in the table.
ItemKept(req, table) ==
    IF req.url = "authority"
    THEN \E z \in table :
           /\ z.domain = BodyText(req, Str_domain)[1]
           /\ z.mname = BodyText(req, Str_mname)[1]
           /\ z.rname = BodyText(req, Str_rname)[1]
    ELSE \E z \in table :
           /\ z.domain = req.zone
           /\ \E rr \in z.records :
                /\ rr.domain = NameOf(BodyText(req, Str_domain)[1])
                /\ rr.ttl = BodyNumber(req, Str_ttl)[1]

\* C21: when save() fails during POST /authority or POST /authority/{zone},
\* the new zone or record is in the in-memory authority all the same, the
\* request is answered with 201, and the web loop is still serving.
C21_SaveFailure ==
    [][saves' = Append(saves, FALSE) =>
          /\ request'.method = "POST"
          /\ status' = 201
          /\ ItemKept(request', zones')
          /\ pc' = "serving"]_vars

\* The save() of the zone x.y failed, and the next request, a GET of
\* /authority/x.y, was served from the zone kept in memory.
C21_Witness ==
    /\ saves = <<FALSE>>
    /\ served = 2
    /\ pc = "serving"
    /\ request.method = "GET" /\ request.url = "zone" /\ request.zone = Text_xy
    /\ status = 200
    /\ get_zone_mut(zones, Text_xy) # None

\* C26: url_decode, applied by parse_formdata to every key and value of a POST
\* form body, never reads an index outside its input, a '%' followed by fewer
\* than two characters included; no form body ends the web loop.
C26_UrlDecodeInBounds ==
    (request.method = "POST" /\ ~request.json_input)
    => /\ ~parse_formdata(request.form).panic
       /\ pc # "dead"

====
